---- MODULE Spec2Model ----
(***************************************************************************)
(* The X402 payment-gated webhook of n8n-nodes-zyndai.                     *)
(*                                                                         *)
(* The repository holds three implementations of X402Webhook.webhook:      *)
(*   "node"    src/nodes/Zynd/X402Webhook.node.ts (webhook +               *)
(*             handleX402Payment)                                          *)
(*   "part002" src/unnamed/part_002 (webhook, no admission filter)         *)
(*   "readme"  src/modified_readme.md (webhook with the payment gate       *)
(*             inlined before the standard webhook processing)             *)
(* One request is followed from its arrival to the return of the handler,  *)
(* the host's write of the response and the completion of a background     *)
(* settlement.  A step of the model is the code between two suspension     *)
(* points (await) or two stages of the handler.  Node parameters are read  *)
(* where the code calls getNodeParameter and are kept in the local of the  *)
(* same name.                                                              *)
(***************************************************************************)
EXTENDS Integers, Sequences, FiniteSets, TLC

VARIABLES
    impl,                   \* which implementation handles the request
    options,                \* getNodeParameter('options'): ipWhitelist, ignoreBots
    req,                    \* the request object
    authentication,         \* getNodeParameter('authentication')
    expectedAuth,           \* the stored credential data
    isRespondToWebhookConnected, \* a Respond to Webhook node is downstream
    pc,                     \* position of the handler
    nodeVersion,            \* context.getNode().typeVersion
    responseMode,           \* getNodeParameter('responseMode')
    responseCode,           \* the response code the configuration sets
    requirePayment,         \* local requirePayment
    price,                  \* local price, a sequence of characters
    isZeroPrice,            \* local isZeroPrice
    settlementMode,         \* local settlementMode
    includePaymentDetails,  \* the include-payment-details decision
    detailsOption,          \* the include-payment-details setting, as configured
    networkName,            \* local networkName
    serverWalletAddress,    \* local serverWalletAddress
    facilitatorUrl,         \* local facilitatorUrl
    atomicAmountForAsset,   \* outcome of processPriceToAtomicAmount
    paymentRequirements,    \* local paymentRequirements
    paymentHeader,          \* the request's X-PAYMENT header, once read
    decodedPayment,         \* TRUE once exact.evm.decodePayment returned
    verifyResult,           \* outcome of the verify call
    settleResult,           \* outcome of the settle call
    background,             \* the promise chain of the unawaited settle call
    verifyCalls,            \* number of calls of verify
    settleCalls,            \* number of calls of settle
    paymentResponseHeader,  \* TRUE once settleResponseHeader(..) was computed
    captured,               \* how the request body was captured
    resp,                   \* the HTTP response object
    ret,                    \* what the handler returned to the host
    record,                 \* the record forwarded to the workflow
    trace,                  \* the stages entered, in order
    capturePc,              \* position of a capture operation
    binaryPropertyName,     \* options.binaryPropertyName
    uploads,                \* req.body.files of a multipart request
    cursor,                 \* the loop variables of the capture operation
    tmpFiles,               \* the temporary files that exist
    returnItem,             \* the record a capture operation builds
    captureResult,          \* how the capture operation ended
    tasks,                  \* the requests handled concurrently
    tmpDir,                 \* the temporary-file directory they share
    facilitatorCalls,       \* the verify and settle calls the facilitator got
    httpMethod,             \* getNodeParameter('httpMethod'), a list
    requestMethod,          \* context.getRequestObject().method
    outputs,                \* the outputs array of setupOutputConnection
    requestData,            \* local requestData of handleX402Payment
    workflowData,           \* the workflowData the handler returns
    outputPc,               \* position between the uses of prepareOutput
    graph,                  \* the object graph handed to safeStringify
    stringified,            \* what safeStringify returns
    publishPc,              \* position of AgentPublisher.execute
    continueOnFail,         \* this.continueOnFail()
    itemIndex,              \* the loop variable i of AgentPublisher.execute
    webHookId,              \* local webHookId, declared before the loop
    calls,                  \* the outbound calls of AgentPublisher.execute
    returnData,             \* the records AgentPublisher.execute built
    searchPc,               \* position of SearchAgent.execute
    keyword,                \* whether agentKeyword is given
    capabilitiesCsv,        \* whether capabilities are given
    responses,              \* the agent lists the searches returned
    agentMap,               \* local agentMap, in insertion order
    summary                 \* the summary record and the agent records

\* What is given with the request and does not change while it is handled.
given == <<options, req, authentication, expectedAuth, isRespondToWebhookConnected>>

\* The state of the capture operations and of the concurrent requests.
staging == <<capturePc, binaryPropertyName, uploads, cursor, tmpFiles,
             returnItem, captureResult>>
concurrent == <<tasks, tmpDir, facilitatorCalls>>
outputConnection == <<httpMethod, requestMethod, outputs, requestData,
                      workflowData, outputPc>>
serialization == <<graph, stringified>>
publication == <<publishPc, continueOnFail, itemIndex, webHookId, calls,
                 returnData>>
search == <<searchPc, keyword, capabilitiesCsv, responses, agentMap,
            summary>>
library == <<outputConnection, serialization, publication, search>>

\* The state of the handler followed for one request.
handler == <<impl, given, detailsOption, background, pc, nodeVersion,
             responseMode, responseCode, facilitatorUrl, atomicAmountForAsset,
             requirePayment, price, isZeroPrice, settlementMode,
             includePaymentDetails, networkName, serverWalletAddress,
             paymentRequirements, paymentHeader, decodedPayment,
             verifyResult, settleResult, verifyCalls, settleCalls,
             paymentResponseHeader, captured, resp, ret, record, trace>>

vars == <<handler, staging, concurrent, library>>

Impls == {"node", "part002", "readme"}

(***************************************************************************)
(* Configuration and request domains.                                      *)
(***************************************************************************)
NodeVersions == {1, 2}
ResponseModes == {"onReceived", "lastNode", "responseNode", "streaming"}
ResponseCodes == {200, 201}
OptionFlag == {"true", "false", "unset"}
SettlementModeOption == {"sync", "async", "unset"}
Networks == {"base-sepolia", "base"}
Wallets == {"", "0xPAYEE"}
FacilitatorUrls == {"", "https://x402.org/facilitator"}
PaymentHeaders == {"absent", "malformed", "wellformed"}

\* Price strings, as sequences of characters.
PriceSamples ==
    { <<"$", "0">>, <<"0", ".", "0", "0">>, <<"$", "0", ".", "0", "0", "0">>,
      <<" ", "$", "0">>, <<"0", ".">>,
      <<"$", "0", ".", "5", "0">>, <<"1">>, <<"$", "x">> }

\* price.trim()
RECURSIVE TrimLeft(_)
TrimLeft(s) == IF Len(s) > 0 /\ s[1] = " " THEN TrimLeft(Tail(s)) ELSE s
RECURSIVE TrimRight(_)
TrimRight(s) ==
    IF Len(s) > 0 /\ s[Len(s)] = " " THEN TrimRight(SubSeq(s, 1, Len(s) - 1)) ELSE s
Trim(s) == TrimRight(TrimLeft(s))

AllZeros(s) == Len(s) >= 1 /\ \A i \in 1..Len(s) : s[i] = "0"

\* /^\$?0+(\.0+)?$/.test(s)
ZeroPriceRegex(s) ==
    LET body == IF Len(s) > 0 /\ s[1] = "$" THEN Tail(s) ELSE s
    IN  \E k \in 1..Len(body) :
            /\ AllZeros(SubSeq(body, 1, k))
            /\ \/ k = Len(body)
               \/ /\ k < Len(body)
                  /\ body[k + 1] = "."
                  /\ AllZeros(SubSeq(body, k + 2, Len(body)))

\* const isZeroPrice = /^\$?0+(\.0+)?$/.test(price.trim())
IsZeroPrice(p) == ZeroPriceRegex(Trim(p))

DigitValue(c) ==
    CASE c = "0" -> 0 [] c = "1" -> 1 [] c = "2" -> 2 [] c = "3" -> 3
      [] c = "4" -> 4 [] c = "5" -> 5 [] c = "6" -> 6 [] c = "7" -> 7
      [] c = "8" -> 8 [] c = "9" -> 9 [] OTHER -> 0
IsDigit(c) == c \in {"0", "1", "2", "3", "4", "5", "6", "7", "8", "9"}

RECURSIVE DigitsValue(_)
DigitsValue(s) ==
    IF Len(s) = 0 THEN 0
    ELSE 10 * DigitsValue(SubSeq(s, 1, Len(s) - 1)) + DigitValue(s[Len(s)])

RECURSIVE Pow2(_)
Pow2(n) == IF n <= 0 THEN 1 ELSE 2 * Pow2(n - 1)

RECURSIVE Pow10(_)
Pow10(n) == IF n <= 0 THEN 1 ELSE 10 * Pow10(n - 1)

\* The money string with its currency sign removed.
Money(p) == LET t == Trim(p) IN IF Len(t) > 0 /\ t[1] = "$" THEN Tail(t) ELSE t

DotAt(m) == IF \E i \in 1..Len(m) : m[i] = "."
            THEN CHOOSE i \in 1..Len(m) : m[i] = "." /\ \A j \in 1..(i - 1) : m[j] # "."
            ELSE Len(m) + 1

\* A price processPriceToAtomicAmount can parse: digits with at most one point.
PriceParses(p) ==
    LET m == Money(p)
    IN  /\ Len(m) > 0
        /\ \A i \in 1..Len(m) : IsDigit(m[i]) \/ (m[i] = "." /\ i = DotAt(m))
        /\ \E i \in 1..Len(m) : IsDigit(m[i])

\* maxAmountRequired: the price in atomic units of a six-decimal asset.
AtomicAmount(p) ==
    LET m == Money(p)
        d == DotAt(m)
        whole == SubSeq(m, 1, d - 1)
        frac == SubSeq(m, d + 1, Len(m))
    IN  DigitsValue(whole) * 1000000 + DigitsValue(frac) * Pow10(6 - Len(frac))

NoRequirements ==
    [scheme |-> "", network |-> "", maxAmountRequired |-> 0, payTo |-> "", resource |-> ""]

\* Faulty variant: the amount of the offer varies with the request.
BuildPaymentRequirementsPerRequest(p, network, payTo) ==
    [scheme |-> "exact", network |-> network,
     maxAmountRequired |-> AtomicAmount(p) + Len(req.ip),
     payTo |-> payTo, resource |-> "webhookUrl"]

\* const paymentRequirements: PaymentRequirements = { ... }
BuildPaymentRequirements(p, network, payTo) ==
    [scheme |-> "exact", network |-> network, maxAmountRequired |-> AtomicAmount(p),
     payTo |-> payTo, resource |-> "webhookUrl"]

(***************************************************************************)
(* The HTTP response object and the handler's result.                      *)
(***************************************************************************)
FreshResponse ==
    [heads |-> 0, ends |-> 0, status |-> 0, xPaymentResponse |-> FALSE,
     wwwAuthenticate |-> FALSE, chunked |-> FALSE, error |-> "", accepts |-> <<>>,
     payer |-> FALSE, body |-> "", hostWrites |-> 0]

\* resp.writeHead(statusCode, headers)
WriteHead(r, statusCode) ==
    [r EXCEPT !.heads = @ + 1, !.status = IF r.heads = 0 THEN statusCode ELSE @]

\* Faulty variant: the body is set but the response is left open.
EndOmitted(r, body) == [r EXCEPT !.body = body]

\* resp.end(body)
End(r, body) == [r EXCEPT !.ends = @ + 1, !.body = body]

\* sendJsonResponse(statusCode, {error, accepts, payer})
SendJsonResponse(r, statusCode, error, accepts, payer) ==
    [End(WriteHead(r, statusCode), "json") EXCEPT
        !.error = error, !.accepts = accepts, !.payer = payer]

\* Faulty variant: sendJsonResponse returns without noWebhookResponse.
StopProcessingHostResponds ==
    [kind |-> "returned", noWebhookResponse |-> FALSE, workflowData |-> FALSE]

NoResult == [kind |-> "none", noWebhookResponse |-> FALSE, workflowData |-> FALSE]
\* return { noWebhookResponse: true }
StopProcessing == [kind |-> "returned", noWebhookResponse |-> TRUE, workflowData |-> FALSE]
\* return { noWebhookResponse: true, workflowData: ... }
ForwardNoResponse == [kind |-> "returned", noWebhookResponse |-> TRUE, workflowData |-> TRUE]
\* return { workflowData: ... } or { webhookResponse, workflowData }
ForwardHostResponds == [kind |-> "returned", noWebhookResponse |-> FALSE, workflowData |-> TRUE]
\* an exception that leaves the handler
Thrown == [kind |-> "thrown", noWebhookResponse |-> FALSE, workflowData |-> FALSE]

NoRecord == [forwarded |-> FALSE, payment |-> FALSE, verified |-> FALSE,
             settled |-> FALSE, settlementMode |-> ""]

Reached(stage) == trace' = Append(trace, stage)

(***************************************************************************)
(* Strings are sequences of characters.  The allowlist check isIpAllowed   *)
(* and the address arithmetic it is compared with.                         *)
(***************************************************************************)
\* String.prototype.startsWith
StartsWith(s, prefix) ==
    Len(prefix) <= Len(s) /\ SubSeq(s, 1, Len(prefix)) = prefix

\* String.prototype.includes(c) for a single character
Includes(s, c) == \E i \in 1..Len(s) : s[i] = c

\* String.prototype.indexOf(c), counted from 1; 0 when c does not occur
IndexOf(s, c) ==
    IF Includes(s, c)
    THEN CHOOSE i \in 1..Len(s) : s[i] = c /\ \A j \in 1..(i - 1) : s[j] # c
    ELSE 0

\* String.prototype.lastIndexOf(c), counted from 1; 0 when c does not occur
LastIndexOf(s, c) ==
    IF Includes(s, c)
    THEN CHOOSE i \in 1..Len(s) : s[i] = c /\ \A j \in (i + 1)..Len(s) : s[j] # c
    ELSE 0

\* String.prototype.split(c)
RECURSIVE Split(_, _)
Split(s, c) ==
    IF ~Includes(s, c) THEN <<s>>
    ELSE <<SubSeq(s, 1, IndexOf(s, c) - 1)>>
            \o Split(SubSeq(s, IndexOf(s, c) + 1, Len(s)), c)

\* allowlist.split(',').map((entry) => entry.trim())
AllowlistEntries(allowlist) ==
    LET parts == Split(allowlist, ",") IN [i \in 1..Len(parts) |-> Trim(parts[i])]

\* network.substring(0, network.lastIndexOf('.')) of the part before '/':
\* lastIndexOf gives -1 without a point and substring(0, -1) is ''.
NetworkPrefix(entry) ==
    LET network == Split(entry, "/")[1]
    IN  SubSeq(network, 1, LastIndexOf(network, ".") - 1)

Undefined == <<"undefined">>

\* isIpAllowed(allowlist, ips, ip)
IsIpAllowed(allowlist, ips, ip) ==
    IF allowlist = Undefined \/ allowlist = <<>> THEN TRUE
    ELSE LET entries == AllowlistEntries(allowlist)
             allowedIps == {entries[i] : i \in 1..Len(entries)}
         IN  \/ ip # <<>> /\ ip \in allowedIps
             \/ \E k \in 1..Len(ips) : ips[k] \in allowedIps
             \/ \E i \in 1..Len(entries) :
                    /\ Includes(entries[i], "/")
                    /\ ip # <<>>
                    /\ StartsWith(ip, NetworkPrefix(entries[i]))

\* An octet or a prefix length in decimal: one to three digits.
IsNumber(s) == Len(s) \in 1..3 /\ \A i \in 1..Len(s) : IsDigit(s[i])

\* A dotted IPv4 address: four octets of 0..255.
IsAddress(s) ==
    LET parts == Split(s, ".")
    IN  /\ Len(parts) = 4
        /\ \A i \in 1..4 : IsNumber(parts[i]) /\ DigitsValue(parts[i]) <= 255

\* The eight bits of an octet, most significant first.
OctetBits(n) == [i \in 1..8 |-> (n \div Pow2(8 - i)) % 2]

\* The 32 bits of a dotted IPv4 address.
AddressBits(s) ==
    LET parts == Split(s, ".")
    IN  OctetBits(DigitsValue(parts[1])) \o OctetBits(DigitsValue(parts[2]))
            \o OctetBits(DigitsValue(parts[3])) \o OctetBits(DigitsValue(parts[4]))

\* address/length with a dotted address and a length of 0..32
IsCidr(entry) ==
    LET parts == Split(entry, "/")
    IN  /\ Len(parts) = 2
        /\ IsAddress(parts[1])
        /\ IsNumber(parts[2]) /\ DigitsValue(parts[2]) <= 32

\* The address lies in the range: its first length bits are the network's.
InCidr(address, entry) ==
    LET parts == Split(entry, "/")
        n == DigitsValue(parts[2])
    IN  /\ IsCidr(entry) /\ IsAddress(address)
        /\ SubSeq(AddressBits(address), 1, n) = SubSeq(AddressBits(parts[1]), 1, n)

\* An allowlist entry that is neither an address nor a range.
IsMalformedEntry(entry) == ~IsAddress(entry) /\ ~IsCidr(entry)

\* The allowlist decision by exact address or range membership, for the
\* direct client address and each forwarded address.
MatchesAllowlist(allowlist, ips, ip) ==
    LET entries == AllowlistEntries(allowlist)
        candidates == (IF ip = <<>> THEN {} ELSE {ip}) \cup {ips[k] : k \in 1..Len(ips)}
    IN  \E i \in 1..Len(entries), c \in candidates :
            c = entries[i] \/ InCidr(c, entries[i])

\* options.ipWhitelist
AllowlistSamples ==
    { Undefined,
      <<>>,
      <<"1", "0", ".", "0", ".", "0", ".", "1">>,
      <<"1", "0", ".", "0", ".", "0", ".", "0", "/", "2", "4">>,
      <<"1", "0", ".", "0", ".", "0", ".", "0", "/", "2", "5">>,
      <<"1", "0", ".", "0", ".", "0", ".", "0", "/", "8">>,
      <<"1", "0", ".", "0", ".", "1", ".", "0", "/", "2", "4">>,
      <<"1", "0", ".", "0", ".", "0", ".", "1", ",", " ", "1", "0", ".", "0", ".", "0", ".", "0", "/", "2", "4">> }

\* req.ip
ClientIps ==
    { <<"1", "0", ".", "0", ".", "0", ".", "1">>,
      <<"1", "0", ".", "0", ".", "0", ".", "2", "0", "0">>,
      <<"1", "0", ".", "0", ".", "1", "0", ".", "5">>,
      <<"1", "9", "2", ".", "1", "6", "8", ".", "1", ".", "9">> }

\* req.ips, the addresses forwarded by proxies
ForwardedIps ==
    { <<>>,
      <<<<"1", "0", ".", "0", ".", "0", ".", "1">>>>,
      <<<<"1", "0", ".", "0", ".", "0", ".", "2", "0", "0">>>> }

(***************************************************************************)
(* The bot filter and validateWebhookAuthentication.                       *)
(***************************************************************************)
UpperCase == <<"A", "B", "C", "D", "E", "F", "G", "H", "I", "J", "K", "L", "M",
               "N", "O", "P", "Q", "R", "S", "T", "U", "V", "W", "X", "Y", "Z">>
LowerCase == <<"a", "b", "c", "d", "e", "f", "g", "h", "i", "j", "k", "l", "m",
               "n", "o", "p", "q", "r", "s", "t", "u", "v", "w", "x", "y", "z">>

\* String.prototype.toLowerCase
ToLowerCase(s) ==
    [i \in 1..Len(s) |->
        IF \E k \in 1..26 : UpperCase[k] = s[i]
        THEN LowerCase[CHOOSE k \in 1..26 : UpperCase[k] = s[i]]
        ELSE s[i]]

\* s contains sub as a substring
Contains(s, sub) ==
    \E i \in 1..(Len(s) - Len(sub) + 1) : SubSeq(s, i, i + Len(sub) - 1) = sub

\* /bot|crawl|spider|slurp|preview|fetch|curl-image|facebookexternalhit|
\*  WhatsApp|Telegram|Discord|Slack/i
BotPatterns ==
    { <<"b", "o", "t">>,
      <<"c", "r", "a", "w", "l">>,
      <<"s", "p", "i", "d", "e", "r">>,
      <<"s", "l", "u", "r", "p">>,
      <<"p", "r", "e", "v", "i", "e", "w">>,
      <<"f", "e", "t", "c", "h">>,
      <<"c", "u", "r", "l", "-", "i", "m", "a", "g", "e">>,
      <<"f", "a", "c", "e", "b", "o", "o", "k", "e", "x", "t", "e", "r", "n", "a", "l", "h", "i", "t">>,
      <<"w", "h", "a", "t", "s", "a", "p", "p">>,
      <<"t", "e", "l", "e", "g", "r", "a", "m">>,
      <<"d", "i", "s", "c", "o", "r", "d">>,
      <<"s", "l", "a", "c", "k">> }

\* botPatterns.test(userAgent); isbot(userAgent) of the isbot package is
\* taken to flag the same signatures.
IsBot(userAgent) == \E p \in BotPatterns : Contains(ToLowerCase(userAgent), p)

\* Buffer.from(token, 'base64').toString('ascii'), on the tokens in use
Base64Decode(token) ==
    CASE token = <<"d", "T", "p", "w">> -> <<"u", ":", "p">>
      [] token = <<"d", "T", "p", "x">> -> <<"u", ":", "q">>
      [] token = <<"d", "T", "p", "w", "O", "n", "g", "=">> -> <<"u", ":", "p", ":", "x">>
      [] OTHER -> <<>>

\* The stored credential data; defined is FALSE when getCredentials throws.
NoCredentials ==
    [defined |-> FALSE, user |-> <<>>, password |-> <<>>, name |-> <<>>, value |-> <<>>]

\* validateWebhookAuthentication: 0 when it returns, otherwise the
\* responseCode of the WebhookAuthorizationError it throws.
ValidateWebhookAuthentication(authenticationMode, expected, request) ==
    CASE authenticationMode = "basicAuth" ->
            IF ~expected.defined \/ expected.user = <<>> \/ expected.password = <<>>
            THEN 500
            ELSE IF request.authorization = <<>>
                    \/ ~StartsWith(request.authorization, <<"B", "a", "s", "i", "c", " ">>)
            THEN 401
            ELSE LET base64Credentials == Split(request.authorization, " ")[2]
                     credentials == Split(Base64Decode(base64Credentials), ":")
                     user == credentials[1]
                     password == IF Len(credentials) >= 2 THEN credentials[2]
                                 ELSE Undefined
                 IN  IF user # expected.user \/ password # expected.password
                     THEN 403 ELSE 0
      [] authenticationMode = "headerAuth" ->
            IF ~expected.defined \/ expected.name = <<>> \/ expected.value = <<>>
            THEN 500
            ELSE IF request.headerName # ToLowerCase(expected.name)
                    \/ request.headerValue # expected.value
            THEN 403 ELSE 0
      [] OTHER -> 0

AuthenticationModes == {"none", "basicAuth", "headerAuth"}

\* The credential data stored for the node.
CredentialSamples ==
    { NoCredentials,
      [NoCredentials EXCEPT !.defined = TRUE, !.user = <<"u">>, !.password = <<"p">>],
      [NoCredentials EXCEPT !.defined = TRUE, !.user = <<"u">>],
      [NoCredentials EXCEPT !.defined = TRUE, !.name = <<"X", "-", "K", "e", "y">>, !.value = <<"s">>] }

\* req.headers.authorization; the empty string stands for an absent header
AuthorizationHeaders ==
    { <<>>,
      <<"B", "e", "a", "r", "e", "r", " ", "t">>,
      <<"B", "a", "s", "i", "c", " ", "d", "T", "p", "w">>,
      <<"B", "a", "s", "i", "c", " ", "d", "T", "p", "x">>,
      <<"B", "a", "s", "i", "c", " ", "d", "T", "p", "w", "O", "n", "g", "=">> }

\* req.headers['user-agent']
UserAgents == { <<"M", "o", "z", "i", "l", "l", "a">>, <<"G", "o", "o", "g", "l", "e", "b", "o", "t">> }

\* The request: direct and forwarded addresses, user agent, Authorization
\* header and one further header (its name in lower case, as received).
Request(ip, ips, userAgent, authorization, headerName, headerValue) ==
    [ip |-> ip, ips |-> ips, userAgent |-> userAgent,
     authorization |-> authorization,
     headerName |-> headerName, headerValue |-> headerValue]

\* A request and a configuration that pass the admission filter.
PlainAdmission ==
    [options |-> [ipWhitelist |-> Undefined, ignoreBots |-> FALSE],
     req |-> Request(<<"1", "0", ".", "0", ".", "0", ".", "1">>, <<>>,
                     <<"M", "o", "z", "i", "l", "l", "a">>, <<>>, <<>>, <<>>),
     authentication |-> "none",
     expectedAuth |-> NoCredentials]

\* One case for each decision of the admission filter.
CoreAdmissionCases ==
    { PlainAdmission,
      [PlainAdmission EXCEPT
          !.options.ipWhitelist = <<"l", "a", "n", "/", "8">>,
          !.req.ip = <<"1", "9", "2", ".", "1", "6", "8", ".", "1", ".", "9">>],
      [PlainAdmission EXCEPT
          !.options.ipWhitelist = <<"1", "0", ".", "0", ".", "0", ".", "0", "/", "2", "5">>,
          !.req.ip = <<"1", "9", "2", ".", "1", "6", "8", ".", "1", ".", "9">>],
      [PlainAdmission EXCEPT
          !.options.ignoreBots = TRUE,
          !.req.userAgent = <<"G", "o", "o", "g", "l", "e", "b", "o", "t">>],
      [PlainAdmission EXCEPT
          !.authentication = "basicAuth",
          !.expectedAuth = [NoCredentials EXCEPT !.defined = TRUE,
                                               !.user = <<"u">>, !.password = <<"p">>]],
      [PlainAdmission EXCEPT
          !.authentication = "basicAuth",
          !.expectedAuth = [NoCredentials EXCEPT !.defined = TRUE,
                                               !.user = <<"u">>, !.password = <<"p">>],
          !.req.authorization = <<"B", "a", "s", "i", "c", " ", "d", "T", "p", "x">>],
      [PlainAdmission EXCEPT !.authentication = "headerAuth"] }

\* The allowlist cases, without bot filter and authentication.
AllowlistCases ==
    { [PlainAdmission EXCEPT !.options.ipWhitelist = a, !.req.ip = i, !.req.ips = f] :
        a \in AllowlistSamples, i \in ClientIps, f \in ForwardedIps }

\* The bot filter and authentication cases, without allowlist.
AuthenticationCases ==
    { [PlainAdmission EXCEPT
          !.options.ignoreBots = b, !.req.userAgent = ua,
          !.req.authorization = h,
          !.req.headerName = hv[1], !.req.headerValue = hv[2],
          !.authentication = m, !.expectedAuth = c] :
        b \in BOOLEAN, ua \in UserAgents, h \in AuthorizationHeaders,
        hv \in { <<<<>>, <<>>>>,
                 <<<<"x", "-", "k", "e", "y">>, <<"s">>>>,
                 <<<<"x", "-", "k", "e", "y">>, <<"t">>>> },
        m \in AuthenticationModes, c \in CredentialSamples }

AdmissionCases == AllowlistCases \cup AuthenticationCases

(***************************************************************************)
(* Entry of the handler and the admission filter.                          *)
(***************************************************************************)
\* let count = 0; for (key) { let fileCount = 0; for (file) { .. } }
NoCursor == [op |-> "", key |-> 0, file |-> 0, count |-> 0, fileCount |-> 0]

\* const returnItem = { json: {..} }, without binary attachments
NoItem == [binary |-> {}]

\* No capture operation is followed.
StagingIdle ==
    /\ capturePc = "idle"
    /\ binaryPropertyName = Undefined
    /\ uploads = <<>>
    /\ cursor = NoCursor
    /\ tmpFiles = {}
    /\ returnItem = NoItem
    /\ captureResult = "none"

\* No concurrent requests are followed.
ConcurrentIdle ==
    /\ tasks = <<>>
    /\ tmpDir = <<>>
    /\ facilitatorCalls = <<>>

\* const returnData = [] of SearchAgent.execute: nothing pushed yet
NoSummary == [count |-> 0, agents |-> <<>>]

\* No output connection is followed.
OutputIdle ==
    /\ httpMethod = <<>>
    /\ requestMethod = ""
    /\ outputs = <<>>
    /\ requestData = ""
    /\ workflowData = <<>>
    /\ outputPc = "idle"

\* Nothing is serialized.
SerializationIdle == graph = <<>> /\ stringified = <<>>

\* AgentPublisher.execute is not followed.
PublicationIdle ==
    /\ publishPc = "idle"
    /\ continueOnFail = FALSE
    /\ itemIndex = 0
    /\ webHookId = ""
    /\ calls = <<>>
    /\ returnData = <<>>

\* SearchAgent.execute is not followed.
SearchIdle ==
    /\ searchPc = "idle"
    /\ keyword = FALSE
    /\ capabilitiesCsv = FALSE
    /\ responses = <<>>
    /\ agentMap = <<>>
    /\ summary = NoSummary

\* Only the webhook is followed.
LibraryIdle == OutputIdle /\ SerializationIdle /\ PublicationIdle /\ SearchIdle

\* The state when the handler is entered, for the given admission cases.
\* part_002 has no admission filter and is followed for the plain case only.
HandlerInit(cases) ==
    /\ impl \in Impls
    /\ \E c \in cases :
        /\ impl = "part002" => c = PlainAdmission
        /\ options = c.options
        /\ req = c.req
        /\ authentication = c.authentication
        /\ expectedAuth = c.expectedAuth
    /\ isRespondToWebhookConnected \in BOOLEAN
    /\ pc = "start"
    /\ nodeVersion = 0
    /\ responseMode = ""
    /\ responseCode = 0
    /\ requirePayment = FALSE
    /\ price = <<>>
    /\ isZeroPrice = FALSE
    /\ settlementMode = ""
    /\ includePaymentDetails = FALSE
    /\ detailsOption = "unread"
    /\ background = "none"
    /\ networkName = ""
    /\ serverWalletAddress = ""
    /\ facilitatorUrl = "unread"
    /\ atomicAmountForAsset = "none"
    /\ paymentRequirements = NoRequirements
    /\ paymentHeader = "unread"
    /\ decodedPayment = FALSE
    /\ verifyResult = "none"
    /\ settleResult = "none"
    /\ verifyCalls = 0
    /\ settleCalls = 0
    /\ paymentResponseHeader = FALSE
    /\ captured = "none"
    /\ resp = FreshResponse
    /\ ret = NoResult
    /\ record = NoRecord
    /\ trace = <<>>

\* One request is followed through the handler.
InitWith(cases) ==
    HandlerInit(cases) /\ StagingIdle /\ ConcurrentIdle /\ LibraryIdle

Init == InitWith(CoreAdmissionCases)

\* The same, for every allowlist, bot filter and authentication case.
AdmissionInit == InitWith(AdmissionCases) /\ impl # "part002"

\* The parameters getResponseCode reads: the Response Code property (0 when
\* not set) and the values of the Response Code option (customCode 0 when
\* not set).
NoResponseCode ==
    [responseCode |-> 0,
     values |-> [defined |-> FALSE, responseCode |-> 0, customCode |-> 0]]

ResponseCodeParameters ==
    { NoResponseCode,
      [NoResponseCode EXCEPT !.responseCode = 201],
      [NoResponseCode EXCEPT !.values = [defined |-> TRUE, responseCode |-> 201,
                                         customCode |-> 0]],
      [NoResponseCode EXCEPT !.values = [defined |-> TRUE, responseCode |-> 200,
                                         customCode |-> 201]] }

\* getResponseCode(parameters), the responseCode of the webhook description
GetResponseCode(parameters) ==
    IF parameters.responseCode # 0 THEN parameters.responseCode
    ELSE IF parameters.values.defined
    THEN IF parameters.values.customCode # 0 THEN parameters.values.customCode
         ELSE parameters.values.responseCode
    ELSE 200

\* The response modes the node's "Respond" parameter offers for a version.
ModesOf(v) == IF v >= 2 THEN ResponseModes ELSE ResponseModes \ {"streaming"}

\* checkResponseModeConfiguration throws
ResponseModeConfigurationError(mode, connected) ==
    \/ ~connected /\ mode = "responseNode"
    \/ connected /\ mode \notin {"responseNode", "streaming"}

\* X402Webhook.node.ts: webhook, up to the read of the request object.
NodeStart ==
    /\ impl = "node" /\ pc = "start"
    /\ \E v \in NodeVersions, mode \in ResponseModes, rp \in BOOLEAN,
          parameters \in ResponseCodeParameters :
        /\ mode \in ModesOf(v)
        /\ nodeVersion' = v
        /\ responseMode' = mode
        /\ responseCode' = GetResponseCode(parameters)
        /\ requirePayment' = rp
        /\ IF v >= 2 /\ ResponseModeConfigurationError(mode, isRespondToWebhookConnected)
           THEN pc' = "done" /\ ret' = Thrown
           ELSE pc' = "ip" /\ ret' = ret
    /\ UNCHANGED <<impl, given, staging, concurrent, library, detailsOption,
                   background, facilitatorUrl, atomicAmountForAsset, price,
                   isZeroPrice, settlementMode, includePaymentDetails,
                   networkName, serverWalletAddress, paymentRequirements,
                   paymentHeader, decodedPayment, verifyResult, settleResult,
                   verifyCalls, settleCalls, paymentResponseHeader, captured,
                   resp, record, trace>>

\* modified_readme.md: webhook, up to the read of the request object; the
\* response-mode configuration error is caught and ignored.
ReadmeStart ==
    /\ impl = "readme" /\ pc = "start"
    /\ \E v \in NodeVersions, mode \in ResponseModes,
          parameters \in ResponseCodeParameters :
        /\ mode \in ModesOf(v)
        /\ nodeVersion' = v
        /\ responseMode' = mode
        /\ responseCode' = GetResponseCode(parameters)
    /\ pc' = "ip"
    /\ UNCHANGED <<impl, given, staging, concurrent, library, detailsOption,
                   background, facilitatorUrl, atomicAmountForAsset,
                   requirePayment, price, isZeroPrice, settlementMode,
                   includePaymentDetails, networkName, serverWalletAddress,
                   paymentRequirements, paymentHeader, decodedPayment,
                   verifyResult, settleResult, verifyCalls, settleCalls,
                   paymentResponseHeader, captured, resp, ret, record, trace>>

\* part_002: webhook, up to the payment decision.  There is no admission
\* filter; bodyData, headers and queryData are bound here, the record that
\* holds them (returnData) is built on the branch that forwards it.
Part002Start ==
    /\ impl = "part002" /\ pc = "start"
    /\ \E mode \in {"onReceived", "responseNode"}, code \in ResponseCodes,
          rp \in OptionFlag, p \in PriceSamples :
        /\ responseMode' = mode
        /\ responseCode' = code
        /\ requirePayment' = (rp # "false")
        /\ price' = p
        /\ isZeroPrice' = IsZeroPrice(p)
    /\ pc' = "gate"
    /\ UNCHANGED <<impl, given, staging, concurrent, library, detailsOption,
                   background, facilitatorUrl, atomicAmountForAsset,
                   nodeVersion, settlementMode, includePaymentDetails,
                   networkName, serverWalletAddress, paymentRequirements,
                   paymentHeader, decodedPayment, verifyResult, settleResult,
                   verifyCalls, settleCalls, paymentResponseHeader, captured,
                   resp, ret, record, trace>>

\* Faulty variant: the 403 is written but the handler does not return.
IpCheckWithoutReturn ==
    /\ impl \in {"node", "readme"} /\ pc = "ip"
    /\ LET allowed == IsIpAllowed(options.ipWhitelist, req.ips, req.ip) IN
        IF allowed
        THEN resp' = resp
        ELSE resp' = [End(WriteHead(resp, 403), "text")
                         EXCEPT !.error = "IP is not whitelisted"]
    /\ pc' = "auth"
    /\ UNCHANGED <<impl, given, staging, concurrent, library, detailsOption,
                   background, facilitatorUrl, atomicAmountForAsset,
                   nodeVersion, responseMode, responseCode, requirePayment,
                   price, isZeroPrice, settlementMode, includePaymentDetails,
                   networkName, serverWalletAddress, paymentRequirements,
                   paymentHeader, decodedPayment, verifyResult, settleResult,
                   verifyCalls, settleCalls, paymentResponseHeader, captured,
                   ret, record, trace>>

\* if (!isIpAllowed(options.ipWhitelist, req.ips, req.ip)) { 403 }
\* X402Webhook.node.ts calls the function by the name isIpWhitelisted.
IpCheck ==
    /\ impl \in {"node", "readme"} /\ pc = "ip"
    /\ LET allowed == IsIpAllowed(options.ipWhitelist, req.ips, req.ip) IN
        IF allowed
        THEN pc' = "auth" /\ UNCHANGED <<resp, ret>>
        ELSE /\ resp' = [End(WriteHead(resp, 403), "text")
                            EXCEPT !.error = "IP is not whitelisted"]
             /\ ret' = StopProcessing
             /\ pc' = "done"
    /\ UNCHANGED <<impl, given, staging, concurrent, library, detailsOption,
                   background, facilitatorUrl, atomicAmountForAsset,
                   nodeVersion, responseMode, responseCode, requirePayment,
                   price, isZeroPrice, settlementMode, includePaymentDetails,
                   networkName, serverWalletAddress, paymentRequirements,
                   paymentHeader, decodedPayment, verifyResult, settleResult,
                   verifyCalls, settleCalls, paymentResponseHeader, captured,
                   record, trace>>

\* The outcomes of the bot filter and of validateAuth: pass, or a
\* WebhookAuthorizationError with its response code.
AuthOutcomes == {"pass", "bot403", "auth401", "auth403", "auth500"}

AuthStatus(o) == CASE o = "bot403" -> 403 [] o = "auth401" -> 401
                   [] o = "auth403" -> 403 [] OTHER -> 500

\* try { bot filter; validationData = await this.validateAuth(context) }
AuthOutcome ==
    IF options.ignoreBots /\ IsBot(req.userAgent) THEN "bot403"
    ELSE LET code == ValidateWebhookAuthentication(authentication, expectedAuth, req)
         IN  CASE code = 401 -> "auth401" [] code = 403 -> "auth403"
               [] code = 500 -> "auth500" [] OTHER -> "pass"

\* The bot filter and validateAuth, and the catch that answers a
\* WebhookAuthorizationError.
AuthCheck ==
    /\ impl \in {"node", "readme"} /\ pc = "auth"
    /\ LET o == AuthOutcome IN
        IF o = "pass"
        THEN pc' = "gate" /\ UNCHANGED <<resp, ret>>
        ELSE /\ resp' = [End(WriteHead(resp, AuthStatus(o)), "text")
                            EXCEPT !.wwwAuthenticate = TRUE, !.error = o]
             /\ ret' = StopProcessing
             /\ pc' = "done"
    /\ UNCHANGED <<impl, given, staging, concurrent, library, detailsOption,
                   background, facilitatorUrl, atomicAmountForAsset,
                   nodeVersion, responseMode, responseCode, requirePayment,
                   price, isZeroPrice, settlementMode, includePaymentDetails,
                   networkName, serverWalletAddress, paymentRequirements,
                   paymentHeader, decodedPayment, verifyResult, settleResult,
                   verifyCalls, settleCalls, paymentResponseHeader, captured,
                   record, trace>>

(***************************************************************************)
(* The payment gate: requirements, header, decode, verify.                 *)
(***************************************************************************)
\* if (requirePayment) return await this.handleX402Payment(...)
NodeGate ==
    /\ impl = "node" /\ pc = "gate"
    /\ pc' = IF requirePayment THEN "requirements" ELSE "standard"
    /\ UNCHANGED <<impl, given, staging, concurrent, library, detailsOption,
                   background, facilitatorUrl, atomicAmountForAsset,
                   nodeVersion, responseMode, responseCode, requirePayment,
                   price, isZeroPrice, settlementMode, includePaymentDetails,
                   networkName, serverWalletAddress, paymentRequirements,
                   paymentHeader, decodedPayment, verifyResult, settleResult,
                   verifyCalls, settleCalls, paymentResponseHeader, captured,
                   resp, ret, record, trace>>

\* const requirePayment = options.requirePayment !== false; isZeroPrice;
\* if (requirePayment && !isZeroPrice) { payment required path }
ReadmeGate ==
    /\ impl = "readme" /\ pc = "gate"
    /\ \E rp \in OptionFlag, p \in PriceSamples :
        /\ requirePayment' = (rp # "false")
        /\ price' = p
        /\ isZeroPrice' = IsZeroPrice(p)
        /\ pc' = IF rp # "false" /\ ~IsZeroPrice(p) THEN "requirements" ELSE "standard"
    /\ UNCHANGED <<impl, given, staging, concurrent, library, detailsOption,
                   background, facilitatorUrl, atomicAmountForAsset,
                   nodeVersion, responseMode, responseCode, settlementMode,
                   includePaymentDetails, networkName, serverWalletAddress,
                   paymentRequirements, paymentHeader, decodedPayment,
                   verifyResult, settleResult, verifyCalls, settleCalls,
                   paymentResponseHeader, captured, resp, ret, record, trace>>

\* if (!requirePayment || isZeroPrice) { respond without payment }
Part002Gate ==
    /\ impl = "part002" /\ pc = "gate"
    /\ IF ~requirePayment \/ isZeroPrice
       THEN /\ pc' = "done"
            /\ captured' = "json"
            /\ IF responseMode = "responseNode"
               THEN /\ ret' = ForwardHostResponds
                    /\ record' = [NoRecord EXCEPT !.forwarded = TRUE]
                    /\ trace' = trace \o <<"capture", "forward">>
                    /\ resp' = resp
               ELSE /\ resp' = [SendJsonResponse(resp, responseCode, "", <<>>, FALSE)
                                    EXCEPT !.body = "success"]
                    /\ ret' = StopProcessing
                    /\ Reached("capture")
                    /\ record' = record
       ELSE /\ pc' = "requirements"
            /\ UNCHANGED <<resp, ret, record, trace, captured>>
    /\ UNCHANGED <<impl, given, staging, concurrent, library, detailsOption,
                   background, facilitatorUrl, atomicAmountForAsset,
                   nodeVersion, responseMode, responseCode, requirePayment,
                   price, isZeroPrice, settlementMode, includePaymentDetails,
                   networkName, serverWalletAddress, paymentRequirements,
                   paymentHeader, decodedPayment, verifyResult, settleResult,
                   verifyCalls, settleCalls, paymentResponseHeader>>

\* The include-payment-details decision for the configured setting:
\* getNodeParameter('includePaymentDetails', true) in X402Webhook.node.ts,
\* options.includePaymentDetails in part_002 and
\* options.includePaymentDetails !== false in modified_readme.md.
IncludePaymentDetails(i, setting) ==
    CASE i = "node" -> setting # "false"
      [] i = "part002" -> setting = "true"
      [] OTHER -> setting # "false"

\* The outcomes of processPriceToAtomicAmount(price, networkName) and of the
\* EIP-712 check of the asset it returns.
ConversionOutcomes == {"ok", "error", "noEip712"}

\* Faulty variant: a configuration error is answered like a payment error.
ConfigurationErrorAnswers402(r) ==
    SendJsonResponse(r, 402, "Configuration Error", <<>>, FALSE)

\* return sendJsonResponse(500, {error: 'Configuration Error', details})
ConfigurationErrorResponse(r) ==
    SendJsonResponse(r, 500, "Configuration Error", <<>>, FALSE)

\* From the validation of the required parameters to the construction of
\* paymentRequirements: a 500 Configuration Error, or the requirements.
RequirementsStage(missingParameter, p, network, payTo, conv) ==
    IF missingParameter \/ conv # "ok"
    THEN /\ resp' = ConfigurationErrorResponse(resp)
         /\ ret' = StopProcessing
         /\ pc' = "done"
         /\ UNCHANGED <<paymentRequirements, trace>>
    ELSE /\ paymentRequirements' = BuildPaymentRequirements(p, network, payTo)
         /\ Reached("requirements")
         /\ pc' = "header"
         /\ UNCHANGED <<resp, ret>>

\* handleX402Payment: the payment configuration and the requirements.
NodeRequirements ==
    /\ impl = "node" /\ pc = "requirements"
    /\ \E url \in FacilitatorUrls, payTo \in Wallets, p \in PriceSamples,
          network \in Networks, mode \in {"sync", "async"},
          details \in OptionFlag, conv \in ConversionOutcomes :
        /\ conv # "error" => PriceParses(p)
        /\ price' = p
        /\ networkName' = network
        /\ serverWalletAddress' = payTo
        /\ settlementMode' = mode
        /\ detailsOption' = details
        /\ includePaymentDetails' = IncludePaymentDetails("node", details)
        /\ facilitatorUrl' = url
        /\ atomicAmountForAsset' = IF url = "" \/ payTo = "" THEN "none" ELSE conv
        /\ RequirementsStage(url = "" \/ payTo = "", p, network, payTo, conv)
    /\ UNCHANGED <<impl, given, staging, concurrent, library, background,
                   nodeVersion, responseMode, responseCode, requirePayment,
                   isZeroPrice, paymentHeader, decodedPayment, verifyResult,
                   settleResult, verifyCalls, settleCalls,
                   paymentResponseHeader, captured, record>>

\* part_002 and modified_readme.md: the payment configuration and the
\* requirements; only the facilitator URL is validated.
OptionsRequirements ==
    /\ impl \in {"part002", "readme"} /\ pc = "requirements"
    /\ \E url \in FacilitatorUrls, payTo \in Wallets, network \in Networks,
          mode \in SettlementModeOption, conv \in ConversionOutcomes :
        /\ conv # "error" => PriceParses(price)
        /\ networkName' = network
        /\ serverWalletAddress' = payTo
        /\ settlementMode' = IF mode = "unset" THEN "sync" ELSE mode
        /\ facilitatorUrl' = url
        /\ atomicAmountForAsset' = IF url = "" THEN "none" ELSE conv
        /\ RequirementsStage(url = "", price, network, payTo, conv)
    /\ UNCHANGED <<impl, given, staging, concurrent, library, detailsOption,
                   background, nodeVersion, responseMode, responseCode,
                   requirePayment, price, isZeroPrice, includePaymentDetails,
                   paymentHeader, decodedPayment, verifyResult, settleResult,
                   verifyCalls, settleCalls, paymentResponseHeader, captured,
                   record>>

\* Faulty variant: the 402 for a missing header carries no offer.
MissingHeaderResponseWithoutOffer(r, requirements) ==
    SendJsonResponse(r, 402, "X-PAYMENT header is required", <<>>, FALSE)

\* if (!paymentHeader) return sendJsonResponse(402, {error, accepts})
MissingHeaderResponse(r, requirements) ==
    SendJsonResponse(r, 402, "X-PAYMENT header is required", <<requirements>>, FALSE)

\* Faulty variant: a header that does not decode is answered as a bad
\* request, without the offer.
DecodeFailedAnswers400(r, requirements) ==
    SendJsonResponse(r, 400, "decode error", <<>>, FALSE)

\* catch (error) { return sendJsonResponse(402, {error: error?.message ||
\* "Invalid or malformed payment header", accepts: [paymentRequirements]}) }
DecodeFailedResponse(r, requirements) ==
    SendJsonResponse(r, 402, "decode error", <<requirements>>, FALSE)

\* The X-PAYMENT header: missing, not decodable, or decoded and handed to
\* verify.
CheckPaymentHeader ==
    /\ pc = "header"
    /\ \E header \in PaymentHeaders :
      /\ paymentHeader' = header
      /\ CASE header = "absent" ->
                /\ resp' = MissingHeaderResponse(resp, paymentRequirements)
                /\ ret' = StopProcessing
                /\ pc' = "done"
                /\ UNCHANGED <<decodedPayment, verifyCalls, trace>>
          [] header = "malformed" ->
                /\ resp' = DecodeFailedResponse(resp, paymentRequirements)
                /\ ret' = StopProcessing
                /\ pc' = "done"
                /\ trace' = Append(trace, "decode")
                /\ UNCHANGED <<decodedPayment, verifyCalls>>
          [] OTHER ->
                /\ decodedPayment' = TRUE
                /\ verifyCalls' = verifyCalls + 1
                /\ trace' = trace \o <<"decode", "verify">>
                /\ pc' = "verifying"
                /\ UNCHANGED <<resp, ret>>
    /\ UNCHANGED <<impl, given, staging, concurrent, library, detailsOption,
                   background, facilitatorUrl, atomicAmountForAsset,
                   nodeVersion, responseMode, responseCode, requirePayment,
                   price, isZeroPrice, settlementMode, includePaymentDetails,
                   networkName, serverWalletAddress, paymentRequirements,
                   verifyResult, settleResult, settleCalls,
                   paymentResponseHeader, captured, record>>

VerifyOutcomes == {"valid", "invalid", "threw"}

\* After a valid verification: the node implementation captures the request
\* before settling, the others settle first.
AfterVerify == IF impl = "node" THEN "capture" ELSE "settlement"

\* Faulty variant: the isValid test is missing, any returned result goes on.
VerifyAcceptsAnyResult(outcome) == TRUE

\* if (!response.isValid) { 402 }: only a valid result goes on.
VerifyAccepts(outcome) == outcome = "valid"

\* Faulty variant: the verify call has no catch of its own, so its error is
\* answered by the outer catch with 500 and no offer.
VerifyThrewAnswers500(r, requirements) ==
    SendJsonResponse(r, 500, "Payment processing error", <<>>, FALSE)

\* catch (error) { return sendJsonResponse(402, {error, accepts}) }
VerifyThrewResponse(r, requirements) ==
    SendJsonResponse(r, 402, "verify error", <<requirements>>, FALSE)

\* await verify(decodedPayment, paymentRequirements) returns or throws.
VerifyReturns ==
    /\ pc = "verifying"
    /\ \E outcome \in VerifyOutcomes :
        /\ verifyResult' = outcome
        /\ CASE outcome # "threw" /\ VerifyAccepts(outcome) ->
                    /\ pc' = AfterVerify
                    /\ UNCHANGED <<resp, ret>>
             [] outcome = "invalid" ->
                    /\ resp' = SendJsonResponse(resp, 402, "invalidReason",
                                                <<paymentRequirements>>, TRUE)
                    /\ ret' = StopProcessing
                    /\ pc' = "done"
             [] OTHER ->
                    /\ resp' = VerifyThrewResponse(resp, paymentRequirements)
                    /\ ret' = StopProcessing
                    /\ pc' = "done"
    /\ UNCHANGED <<impl, given, staging, concurrent, library, detailsOption,
                   background, facilitatorUrl, atomicAmountForAsset,
                   nodeVersion, responseMode, responseCode, requirePayment,
                   price, isZeroPrice, settlementMode, includePaymentDetails,
                   networkName, serverWalletAddress, paymentRequirements,
                   paymentHeader, decodedPayment, settleResult, verifyCalls,
                   settleCalls, paymentResponseHeader, captured, record,
                   trace>>

(***************************************************************************)
(* Settlement, capture and delivery.                                       *)
(***************************************************************************)
CaptureKinds == {"binary", "multipart", "raw", "json"}

\* Capture that stages data through I/O and can fail.
CaptureCanFail(kind) == kind # "json"

\* The streaming response head: 200, chunked, keep-alive, no-cache.
WriteStreamingHead(r, withPaymentResponse) ==
    [WriteHead(r, 200) EXCEPT !.chunked = TRUE,
                              !.xPaymentResponse = @ \/ withPaymentResponse]

\* writeHead(code, {..., 'X-PAYMENT-RESPONSE'?}); end({success: true, ...})
WriteSuccess(r, code, withPaymentResponse) ==
    [End(WriteHead(r, code), "success") EXCEPT
        !.xPaymentResponse = @ \/ withPaymentResponse]

\* Faulty variant: the responseNode branch is missing, the handler answers
\* as in onReceived mode.
DeliveryWithoutResponseNode(r, mode, withPaymentResponse) ==
    IF mode = "streaming" THEN WriteStreamingHead(r, withPaymentResponse)
    ELSE WriteSuccess(r, 200, withPaymentResponse)

\* handleX402Payment, "Handle response based on responseMode": nothing is
\* written in responseNode mode, the streaming head in streaming mode, the
\* complete 200 response otherwise.
DeliveryResponse(r, mode, withPaymentResponse) ==
    CASE mode = "responseNode" -> r
      [] mode = "streaming" -> WriteStreamingHead(r, withPaymentResponse)
      [] OTHER -> WriteSuccess(r, 200, withPaymentResponse)

\* The payment metadata merged into the forwarded record.
PaymentRecord(details, isSettled, mode) ==
    [forwarded |-> TRUE, payment |-> details, verified |-> details,
     settled |-> details /\ isSettled,
     settlementMode |-> IF details THEN mode ELSE ""]

\* How handleBinaryData ended, where the capture went through it: with the
\* return of its try block or with the NodeOperationError of its catch block.
BinaryResult(kind, ok, before) ==
    IF kind \in {"binary", "emptyBinary"}
    THEN IF ok THEN "returned" ELSE "thrown"
    ELSE before

\* The part of the capture state the handler leaves alone.
captureSteps == <<capturePc, binaryPropertyName, uploads, cursor, tmpFiles,
                  returnItem>>

\* handleX402Payment: the request is captured once the payment verified.  A
\* failure of the capture reaches the outer catch, which answers 500.
NodeCapture ==
    /\ impl = "node" /\ pc = "capture"
    /\ \E kind \in CaptureKinds, ok \in BOOLEAN :
        /\ ~ok => CaptureCanFail(kind)
        /\ Reached("capture")
        /\ captureResult' = BinaryResult(kind, ok, captureResult)
        /\ IF ok
           THEN /\ captured' = kind
                /\ pc' = "settlement"
                /\ UNCHANGED <<resp, ret>>
           ELSE /\ resp' = SendJsonResponse(resp, 500, "Payment processing error",
                                            <<>>, FALSE)
                /\ ret' = StopProcessing
                /\ pc' = "done"
                /\ captured' = captured
    /\ UNCHANGED <<impl, given, captureSteps, concurrent, library,
                   detailsOption, background, facilitatorUrl,
                   atomicAmountForAsset, nodeVersion, responseMode,
                   responseCode, requirePayment, price, isZeroPrice,
                   settlementMode, includePaymentDetails, networkName,
                   serverWalletAddress, paymentRequirements, paymentHeader,
                   decodedPayment, verifyResult, settleResult, verifyCalls,
                   settleCalls, paymentResponseHeader, record>>

\* handleX402Payment, settlementMode === 'async': the response mode decides
\* the delivery; settle is fired, unawaited, on the onReceived branch only.
NodeAsyncSettlement ==
    /\ impl = "node" /\ pc = "settlement" /\ settlementMode = "async"
    /\ record' = PaymentRecord(includePaymentDetails, FALSE, "async")
    /\ pc' = "done"
    /\ resp' = DeliveryResponse(resp, responseMode, FALSE)
    /\ CASE responseMode = "responseNode" ->
                /\ ret' = ForwardHostResponds
                /\ Reached("forward")
                /\ UNCHANGED <<settleCalls, settleResult, background>>
         [] responseMode = "streaming" ->
                /\ ret' = ForwardNoResponse
                /\ Reached("forward")
                /\ UNCHANGED <<settleCalls, settleResult, background>>
         [] OTHER ->
                /\ settleCalls' = settleCalls + 1
                /\ settleResult' = "pending"
                /\ background' = "pending"
                /\ trace' = trace \o <<"settle", "forward">>
                /\ ret' = ForwardNoResponse
    /\ UNCHANGED <<impl, given, staging, concurrent, library, detailsOption,
                   facilitatorUrl, atomicAmountForAsset, nodeVersion,
                   responseMode, responseCode, requirePayment, price,
                   isZeroPrice, settlementMode, includePaymentDetails,
                   networkName, serverWalletAddress, paymentRequirements,
                   paymentHeader, decodedPayment, verifyResult, verifyCalls,
                   paymentResponseHeader, captured>>

\* part_002, settlementMode === 'async': returnData is built, settle is
\* fired, unawaited, then the response mode decides the delivery.
Part002AsyncSettlement ==
    /\ impl = "part002" /\ pc = "settlement" /\ settlementMode = "async"
    /\ \E details \in OptionFlag :
        /\ detailsOption' = details
        /\ includePaymentDetails' = IncludePaymentDetails("part002", details)
        /\ record' = PaymentRecord(IncludePaymentDetails("part002", details),
                                   FALSE, "async")
    /\ captured' = "json"
    /\ settleCalls' = settleCalls + 1
    /\ settleResult' = "pending"
    /\ background' = "pending"
    /\ trace' = trace \o <<"capture", "settle", "forward">>
    /\ pc' = "done"
    /\ IF responseMode = "responseNode"
       THEN ret' = ForwardHostResponds /\ resp' = resp
       ELSE /\ resp' = WriteSuccess(resp, responseCode, FALSE)
            /\ ret' = ForwardNoResponse
    /\ UNCHANGED <<impl, given, staging, concurrent, library, facilitatorUrl,
                   atomicAmountForAsset, nodeVersion, responseMode,
                   responseCode, requirePayment, price, isZeroPrice,
                   settlementMode, networkName, serverWalletAddress,
                   paymentRequirements, paymentHeader, decodedPayment,
                   verifyResult, verifyCalls, paymentResponseHeader>>

\* modified_readme.md, settlementMode === 'async':
\* settle(decodedPayment, paymentRequirements).catch(() => {})
ReadmeAsyncSettlement ==
    /\ impl = "readme" /\ pc = "settlement" /\ settlementMode = "async"
    /\ settleCalls' = settleCalls + 1
    /\ settleResult' = "pending"
    /\ background' = "pending"
    /\ Reached("settle")
    /\ pc' = "standard"
    /\ UNCHANGED <<impl, given, staging, concurrent, library, detailsOption,
                   facilitatorUrl, atomicAmountForAsset, nodeVersion,
                   responseMode, responseCode, requirePayment, price,
                   isZeroPrice, settlementMode, includePaymentDetails,
                   networkName, serverWalletAddress, paymentRequirements,
                   paymentHeader, decodedPayment, verifyResult, verifyCalls,
                   paymentResponseHeader, captured, resp, ret, record>>

\* The synchronous branch calls settle and awaits it.
SyncSettle ==
    /\ pc = "settlement" /\ settlementMode # "async"
    /\ settleCalls' = settleCalls + 1
    /\ Reached("settle")
    /\ pc' = "settling"
    /\ UNCHANGED <<impl, given, staging, concurrent, library, detailsOption,
                   background, facilitatorUrl, atomicAmountForAsset,
                   nodeVersion, responseMode, responseCode, requirePayment,
                   price, isZeroPrice, settlementMode, includePaymentDetails,
                   networkName, serverWalletAddress, paymentRequirements,
                   paymentHeader, decodedPayment, verifyResult, settleResult,
                   verifyCalls, paymentResponseHeader, captured, resp, ret,
                   record>>

\* What the settle call can do: return a SettleResponse with success true or
\* false, or throw.
SettleOutcomes == {"success", "failed", "threw"}

\* catch (error) { return sendJsonResponse(402, {error, accepts}) }
SettleThrew ==
    /\ resp' = SendJsonResponse(resp, 402, "settle error", <<paymentRequirements>>, FALSE)
    /\ ret' = StopProcessing
    /\ pc' = "done"

\* handleX402Payment, synchronous settlement: await settle(...) returns or
\* throws; the result is encoded without a look at its success field.
NodeSettleReturns ==
    /\ impl = "node" /\ pc = "settling"
    /\ \E outcome \in SettleOutcomes :
        /\ settleResult' = outcome
        /\ IF outcome = "threw"
           THEN SettleThrew /\ UNCHANGED <<paymentResponseHeader, record, trace>>
           ELSE /\ paymentResponseHeader' = TRUE
                /\ record' = PaymentRecord(includePaymentDetails, TRUE, "sync")
                /\ Reached("forward")
                /\ pc' = "done"
                /\ resp' = DeliveryResponse(resp, responseMode, TRUE)
                /\ ret' = IF responseMode = "responseNode"
                          THEN ForwardHostResponds ELSE ForwardNoResponse
    /\ UNCHANGED <<impl, given, staging, concurrent, library, detailsOption,
                   background, facilitatorUrl, atomicAmountForAsset,
                   nodeVersion, responseMode, responseCode, requirePayment,
                   price, isZeroPrice, settlementMode, includePaymentDetails,
                   networkName, serverWalletAddress, paymentRequirements,
                   paymentHeader, decodedPayment, verifyResult, verifyCalls,
                   settleCalls, captured>>

\* part_002, synchronous settlement.
Part002SettleReturns ==
    /\ impl = "part002" /\ pc = "settling"
    /\ \E outcome \in SettleOutcomes, details \in OptionFlag :
        /\ settleResult' = outcome
        /\ IF outcome = "threw"
           THEN /\ SettleThrew
                /\ UNCHANGED <<paymentResponseHeader, record, trace,
                               includePaymentDetails, detailsOption, captured>>
           ELSE /\ paymentResponseHeader' = TRUE
                /\ detailsOption' = details
                /\ includePaymentDetails' = IncludePaymentDetails("part002", details)
                /\ record' = PaymentRecord(IncludePaymentDetails("part002", details),
                                           TRUE, "sync")
                /\ captured' = "json"
                /\ trace' = trace \o <<"capture", "forward">>
                /\ pc' = "done"
                /\ IF responseMode = "responseNode"
                   THEN ret' = ForwardHostResponds /\ resp' = resp
                   ELSE /\ resp' = WriteSuccess(resp, responseCode, TRUE)
                        /\ ret' = ForwardNoResponse
    /\ UNCHANGED <<impl, given, staging, concurrent, library, background,
                   facilitatorUrl, atomicAmountForAsset, nodeVersion,
                   responseMode, responseCode, requirePayment, price,
                   isZeroPrice, settlementMode, networkName,
                   serverWalletAddress, paymentRequirements, paymentHeader,
                   decodedPayment, verifyResult, verifyCalls, settleCalls>>

\* modified_readme.md, synchronous settlement: the header is set on the
\* response in onReceived mode only, then the standard processing follows.
ReadmeSettleReturns ==
    /\ impl = "readme" /\ pc = "settling"
    /\ \E outcome \in SettleOutcomes :
        /\ settleResult' = outcome
        /\ IF outcome = "threw"
           THEN SettleThrew /\ UNCHANGED paymentResponseHeader
           ELSE /\ paymentResponseHeader' = TRUE
                /\ resp' = [resp EXCEPT !.xPaymentResponse =
                                            @ \/ responseMode = "onReceived"]
                /\ pc' = "standard"
                /\ ret' = ret
    /\ UNCHANGED <<impl, given, staging, concurrent, library, detailsOption,
                   background, facilitatorUrl, atomicAmountForAsset,
                   nodeVersion, responseMode, responseCode, requirePayment,
                   price, isZeroPrice, settlementMode, includePaymentDetails,
                   networkName, serverWalletAddress, paymentRequirements,
                   paymentHeader, decodedPayment, verifyResult, verifyCalls,
                   settleCalls, captured, record, trace>>

StandardKinds == CaptureKinds \cup {"emptyBinary"}

\* The standard webhook processing: the request is captured and handed to
\* the workflow; the head is written here in streaming mode only.  In
\* modified_readme.md injectPaymentDetails adds the payment metadata.
StandardProcessing ==
    /\ impl \in {"node", "readme"} /\ pc = "standard"
    /\ \E kind \in StandardKinds, ok \in BOOLEAN, details \in OptionFlag :
        LET inject == impl = "readme" /\ requirePayment /\ ~isZeroPrice
                        /\ IncludePaymentDetails("readme", details)
            fallThrough == kind = "emptyBinary" /\ ~ok
        IN  /\ ~ok => CaptureCanFail(kind)
            /\ kind = "emptyBinary" => nodeVersion > 1
            /\ impl = "node" => details = "unset"
            /\ detailsOption' = IF impl = "readme" THEN details ELSE detailsOption
            /\ includePaymentDetails' = inject
            /\ captureResult' = BinaryResult(kind, ok, captureResult)
            /\ pc' = "done"
            /\ IF ~ok /\ ~fallThrough
               THEN /\ ret' = Thrown
                    /\ Reached("capture")
                    /\ UNCHANGED <<captured, resp, record>>
               ELSE /\ captured' = IF fallThrough THEN "json"
                                   ELSE IF kind = "emptyBinary" THEN "binary" ELSE kind
                    /\ record' = PaymentRecord(inject, FALSE, settlementMode)
                    /\ trace' = trace \o <<"capture", "forward">>
                    /\ IF responseMode = "streaming"
                          /\ (kind \in {"raw", "json"} \/ fallThrough)
                       THEN /\ resp' = WriteStreamingHead(resp, FALSE)
                            /\ ret' = ForwardNoResponse
                       ELSE /\ resp' = resp
                            /\ ret' = ForwardHostResponds
    /\ UNCHANGED <<impl, given, captureSteps, concurrent, library, background,
                   facilitatorUrl, atomicAmountForAsset, nodeVersion,
                   responseMode, responseCode, requirePayment, price,
                   isZeroPrice, settlementMode, networkName,
                   serverWalletAddress, paymentRequirements, paymentHeader,
                   decodedPayment, verifyResult, settleResult, verifyCalls,
                   settleCalls, paymentResponseHeader>>

\* Faulty variant: the background success handler attaches the settlement
\* header to the response as the synchronous branch does.
AsyncSettleCompletesAttachesHeader ==
    /\ settleResult = "pending"
    /\ \E outcome \in {"success", "failed", "threw"} :
        /\ settleResult' = outcome
        /\ resp' = [resp EXCEPT !.xPaymentResponse = @ \/ outcome = "success"]
    /\ UNCHANGED <<impl, given, staging, concurrent, library, detailsOption,
                   background, facilitatorUrl, atomicAmountForAsset, pc,
                   nodeVersion, responseMode, responseCode, requirePayment,
                   price, isZeroPrice, settlementMode, includePaymentDetails,
                   networkName, serverWalletAddress, paymentRequirements,
                   paymentHeader, decodedPayment, verifyResult, verifyCalls,
                   settleCalls, paymentResponseHeader, captured, ret, record,
                   trace>>

\* Faulty variant: the chain ends with .then, a rejection has no handler.
BackgroundEndWithoutCatch(i, outcome, thenThrows) ==
    IF outcome = "threw" \/ thenThrows THEN "unhandled" ELSE "fulfilled"

\* How the promise chain of the unawaited settle call ends:
\* settle(..).then(log).catch(log) in X402Webhook.node.ts, where .catch
\* also receives what the .then handler throws; settle(..).catch(() => {})
\* in part_002 and modified_readme.md.
BackgroundEnd(i, outcome, thenThrows) ==
    CASE outcome = "threw" -> "caught"
      [] thenThrows -> "caughtThen"
      [] OTHER -> "fulfilled"

\* The unawaited settle promise settles: .then logs the response header,
\* .catch logs (node) or ignores (part_002, readme) the error.
AsyncSettleCompletes ==
    /\ settleResult = "pending"
    /\ \E outcome \in SettleOutcomes, thenThrows \in BOOLEAN :
        /\ thenThrows => impl = "node" /\ outcome # "threw"
        /\ settleResult' = outcome
        /\ background' = BackgroundEnd(impl, outcome, thenThrows)
    /\ UNCHANGED <<impl, given, staging, concurrent, library, detailsOption,
                   facilitatorUrl, atomicAmountForAsset, pc, nodeVersion,
                   responseMode, responseCode, requirePayment, price,
                   isZeroPrice, settlementMode, includePaymentDetails,
                   networkName, serverWalletAddress, paymentRequirements,
                   paymentHeader, decodedPayment, verifyResult, verifyCalls,
                   settleCalls, paymentResponseHeader, captured, resp, ret,
                   record, trace>>

\* The host acts on the handler's result: it writes the response itself when
\* the handler threw or returned without noWebhookResponse, with the
\* responseCode of the webhook description.
HostRespond ==
    /\ pc = "done"
    /\ resp.hostWrites = 0
    /\ ret.kind = "thrown" \/ (ret.kind = "returned" /\ ~ret.noWebhookResponse)
    /\ resp' = [resp EXCEPT !.hostWrites = 1,
                            !.status = IF ret.kind = "thrown" THEN 500
                                       ELSE responseCode]
    /\ UNCHANGED <<impl, given, staging, concurrent, library, detailsOption,
                   background, facilitatorUrl, atomicAmountForAsset, pc,
                   nodeVersion, responseMode, responseCode, requirePayment,
                   price, isZeroPrice, settlementMode, includePaymentDetails,
                   networkName, serverWalletAddress, paymentRequirements,
                   paymentHeader, decodedPayment, verifyResult, settleResult,
                   verifyCalls, settleCalls, paymentResponseHeader, captured,
                   ret, record, trace>>

Next ==
    \/ NodeStart
    \/ ReadmeStart
    \/ Part002Start
    \/ IpCheck
    \/ AuthCheck
    \/ NodeGate
    \/ ReadmeGate
    \/ Part002Gate
    \/ NodeRequirements
    \/ OptionsRequirements
    \/ CheckPaymentHeader
    \/ VerifyReturns
    \/ NodeCapture
    \/ NodeAsyncSettlement
    \/ Part002AsyncSettlement
    \/ ReadmeAsyncSettlement
    \/ SyncSettle
    \/ NodeSettleReturns
    \/ Part002SettleReturns
    \/ ReadmeSettleReturns
    \/ StandardProcessing
    \/ AsyncSettleCompletes
    \/ HostRespond

Spec == Init /\ [][Next]_vars

\* The answers of the facilitator to an awaited settle call.
SettleReturns ==
    \/ NodeSettleReturns
    \/ Part002SettleReturns
    \/ ReadmeSettleReturns

\* Every await resumes: each facilitator call and each I/O operation returns
\* or throws, and the host acts on the result of the handler.
LiveSpec == Spec /\ WF_vars(Next)

\* The facilitator may leave an awaited settle call without an answer; every
\* other step is taken.  No timer runs beside await settle(..).
SilentFacilitatorSpec == Spec /\ WF_vars(Next /\ ~SettleReturns)

\* The admission filter alone, over every admission case.
AdmissionNext ==
    \/ NodeStart
    \/ ReadmeStart
    \/ IpCheck
    \/ AuthCheck

AdmissionSpec == AdmissionInit /\ [][AdmissionNext]_vars

(***************************************************************************)
(* Two requests handled concurrently against one endpoint, in onReceived   *)
(* mode with a valid configuration and a decodable X-PAYMENT header.  A    *)
(* step is the code of one request between two awaits: verify, the         *)
(* temp-file operations of handleBinaryData, settle.  Request t presents   *)
(* payment t and body t.  Every local of the handler is a field of the     *)
(* request's task; the temporary-file directory and the facilitator are    *)
(* shared.                                                                 *)
(***************************************************************************)
Requests == {1, 2}

\* The names tmpFile({prefix: 'n8n-webhook-'}) can produce.
Paths == {"n8n-webhook-a", "n8n-webhook-b"}

NewTask ==
    [pc |-> "start", settlementMode |-> "", binaryData |-> FALSE,
     verifyResult |-> "none", settleResult |-> "none",
     path |-> "", failed |-> FALSE, body |-> 0, status |-> 0,
     forwarded |-> FALSE]

\* A file of the temporary directory: content 0 is the empty file, content t
\* the body of request t.
NoFile == [exists |-> FALSE, content |-> 0]
File(content) == [exists |-> TRUE, content |-> content]

\* Faulty variant: the temporary file has a fixed name, whatever exists.
TmpFilePathsReused(dir) == {"n8n-webhook-a"}

\* tmpFile(..) creates a file under a name no existing file has.
TmpFilePaths(dir) == {p \in Paths : ~dir[p].exists}

\* The stage after verify, settle and capture, in the order of each
\* implementation: X402Webhook.node.ts captures before it settles,
\* modified_readme.md after; part_002 has read the body before.
StageAfter(i, stage) ==
    CASE stage = "verify" -> IF i = "node" THEN "capture" ELSE "settle"
      [] stage = "settle" -> IF i = "readme" THEN "capture" ELSE "respond"
      [] OTHER -> IF i = "node" THEN "settle" ELSE "respond"

\* The task at the beginning of a stage.  The capture without
\* options.binaryData reads req.body and does not suspend.
RECURSIVE Enter(_, _, _)
Enter(task, t, stage) ==
    CASE stage = "capture" ->
            IF impl # "part002" /\ task.binaryData
            THEN [task EXCEPT !.pc = "tmpFile"]
            ELSE Enter([task EXCEPT !.body = t], t, StageAfter(impl, "capture"))
      [] stage = "settle" -> [task EXCEPT !.pc = "settle"]
      [] OTHER -> [task EXCEPT !.pc = "done", !.status = 200, !.forwarded = TRUE,
                               !.body = IF impl = "part002" THEN t ELSE @]

\* The request arrives; the header is decoded and verify is called.
TaskStart(t) ==
    /\ tasks[t].pc = "start"
    /\ \E mode \in {"sync", "async"}, binary \in BOOLEAN :
        tasks' = [tasks EXCEPT ![t] = [@ EXCEPT !.pc = "verifying",
                                                !.settlementMode = mode,
                                                !.binaryData = binary]]
    /\ facilitatorCalls' = [facilitatorCalls EXCEPT !.verify[t] = @ + 1]
    /\ UNCHANGED <<handler, library, staging, tmpDir>>

\* await verify(decodedPayment, paymentRequirements) returns or throws.
TaskVerifyReturns(t) ==
    /\ tasks[t].pc = "verifying"
    /\ \E outcome \in VerifyOutcomes :
        LET task == [tasks[t] EXCEPT !.verifyResult = outcome]
        IN  tasks' = [tasks EXCEPT ![t] =
                        IF VerifyAccepts(outcome)
                        THEN Enter(task, t, StageAfter(impl, "verify"))
                        ELSE [task EXCEPT !.pc = "done", !.status = 402]]
    /\ UNCHANGED <<handler, library, staging, tmpDir, facilitatorCalls>>

\* const binaryFile = await tmpFile({ prefix: 'n8n-webhook-' })
TaskTmpFile(t) ==
    /\ tasks[t].pc = "tmpFile"
    /\ \E p \in TmpFilePaths(tmpDir) :
        /\ tasks' = [tasks EXCEPT ![t] = [@ EXCEPT !.pc = "pipeline", !.path = p]]
        /\ tmpDir' = [tmpDir EXCEPT ![p] = File(0)]
    /\ UNCHANGED <<handler, library, staging, facilitatorCalls>>

\* await pipeline(req, createWriteStream(binaryFile.path))
TaskPipeline(t) ==
    /\ tasks[t].pc = "pipeline"
    /\ \E ok \in BOOLEAN :
        /\ tasks' = [tasks EXCEPT ![t] =
                        [@ EXCEPT !.pc = IF ok THEN "copy" ELSE "cleanup",
                                  !.failed = ~ok]]
        /\ tmpDir' = IF ok THEN [tmpDir EXCEPT ![tasks[t].path] = File(t)]
                     ELSE tmpDir
    /\ UNCHANGED <<handler, library, staging, facilitatorCalls>>

\* await stat(binaryFile.path); await copyBinaryFile(binaryFile.path, ..)
TaskCopy(t) ==
    /\ tasks[t].pc = "copy"
    /\ \E ok \in BOOLEAN :
        LET file == tmpDir[tasks[t].path]
            read == ok /\ file.exists
        IN  tasks' = [tasks EXCEPT ![t] =
                        [@ EXCEPT !.pc = "cleanup",
                                  !.failed = ~read,
                                  !.body = IF read THEN file.content ELSE @]]
    /\ UNCHANGED <<handler, library, staging, tmpDir, facilitatorCalls>>

\* finally { await binaryFile.cleanup() }, then the return or the throw of
\* handleBinaryData: the error is answered with 500.
TaskCleanup(t) ==
    /\ tasks[t].pc = "cleanup"
    /\ tmpDir' = [tmpDir EXCEPT ![tasks[t].path] = NoFile]
    /\ tasks' = [tasks EXCEPT ![t] =
                    IF tasks[t].failed
                    THEN [@ EXCEPT !.pc = "done", !.status = 500]
                    ELSE Enter(@, t, StageAfter(impl, "capture"))]
    /\ UNCHANGED <<handler, library, staging, facilitatorCalls>>

\* settle(decodedPayment, paymentRequirements) is called: awaited in
\* synchronous mode, left to the background in asynchronous mode.
TaskSettle(t) ==
    /\ tasks[t].pc = "settle"
    /\ facilitatorCalls' = [facilitatorCalls EXCEPT !.settle[t] = @ + 1]
    /\ tasks' = [tasks EXCEPT ![t] =
                    IF tasks[t].settlementMode = "async"
                    THEN Enter([@ EXCEPT !.settleResult = "pending"], t,
                               StageAfter(impl, "settle"))
                    ELSE [@ EXCEPT !.pc = "settling"]]
    /\ UNCHANGED <<handler, library, staging, tmpDir>>

\* await settle(..) returns or throws.
TaskSettleReturns(t) ==
    /\ tasks[t].pc = "settling"
    /\ \E outcome \in SettleOutcomes :
        LET task == [tasks[t] EXCEPT !.settleResult = outcome]
        IN  tasks' = [tasks EXCEPT ![t] =
                        IF outcome = "threw"
                        THEN [task EXCEPT !.pc = "done", !.status = 402]
                        ELSE Enter(task, t, StageAfter(impl, "settle"))]
    /\ UNCHANGED <<handler, library, staging, tmpDir, facilitatorCalls>>

ConcurrentInit ==
    /\ HandlerInit({PlainAdmission})
    /\ LibraryIdle
    /\ ~isRespondToWebhookConnected
    /\ StagingIdle
    /\ tasks = [t \in Requests |-> NewTask]
    /\ tmpDir = [p \in Paths |-> NoFile]
    /\ facilitatorCalls = [verify |-> [t \in Requests |-> 0],
                           settle |-> [t \in Requests |-> 0]]

ConcurrentNext ==
    \E t \in Requests :
        \/ TaskStart(t)
        \/ TaskVerifyReturns(t)
        \/ TaskTmpFile(t)
        \/ TaskPipeline(t)
        \/ TaskCopy(t)
        \/ TaskCleanup(t)
        \/ TaskSettle(t)
        \/ TaskSettleReturns(t)

ConcurrentSpec == ConcurrentInit /\ [][ConcurrentNext]_vars

(***************************************************************************)
(* The capture operations handleBinaryData and handleFormData, one step    *)
(* for each await.  "node" is X402Webhook.node.ts; "readme" is             *)
(* modified_readme.md, whose handleFormData is the function exported by    *)
(* AgentPublisher.node.ts.  A temporary file is named by a pair: <<0, 0>>  *)
(* for the file of handleBinaryData, <<k, i>> for file i of field k of a   *)
(* multipart request.                                                      *)
(***************************************************************************)
\* The field names of the uploaded files
FieldNames == { <<"f">>, <<"f", "[", "]">>, <<"f", "0">>, <<"g">>, <<"[", "]">> }

\* files[key]: one file, or an array of files
FieldShapes ==
    { [multiFile |-> FALSE, files |-> 1],
      [multiFile |-> TRUE, files |-> 1],
      [multiFile |-> TRUE, files |-> 2] }

Fields == { [key |-> k, multiFile |-> sh.multiFile, files |-> sh.files] :
                k \in FieldNames, sh \in FieldShapes }

\* req.body.files, in the order of Object.keys: the keys are distinct
UploadSamples ==
    { <<>> } \cup { <<a>> : a \in Fields }
        \cup { files \in { <<a, b>> : a \in Fields, b \in Fields } :
                    files[1].key # files[2].key }

\* options.binaryPropertyName
BinaryPropertyNames == { Undefined, <<"d", "a", "t", "a">> }

Digits == <<"0", "1", "2", "3", "4", "5", "6", "7", "8", "9">>

\* String(n), as in the concatenation of a string and a number
RECURSIVE NumberToString(_)
NumberToString(n) ==
    IF n < 10 THEN <<Digits[n + 1]>>
    ELSE NumberToString(n \div 10) \o <<Digits[(n % 10) + 1]>>

\* String.prototype.endsWith
EndsWith(s, suffix) ==
    Len(suffix) <= Len(s) /\ SubSeq(s, Len(s) - Len(suffix) + 1, Len(s)) = suffix

\* if (binaryPropertyName.endsWith('[]')) slice(0, -2)
Stripped(key) ==
    IF EndsWith(key, <<"[", "]">>) THEN SubSeq(key, 1, Len(key) - 2) ELSE key

\* Whether fileCount++ is evaluated for the file: for a file of an array,
\* in AgentPublisher.node.ts only when the field name is not blank.
CountsFile(i, key, multiFile) ==
    multiFile /\ ~(i = "readme" /\ Trim(Stripped(key)) = <<>>)

\* The name under which a file is stored:
\* let binaryPropertyName = key; strip '[]'; += fileCount++ for an array;
\* `${options.binaryPropertyName}${count}` when that option is set.
\* AgentPublisher.node.ts names a file of an empty field name data<count>.
AttachmentName(i, key, multiFile, fileCount, count, configured) ==
    LET stripped == Stripped(key)
        named == IF i = "readme" /\ Trim(stripped) = <<>>
                 THEN <<"d", "a", "t", "a">> \o NumberToString(count)
                 ELSE IF multiFile THEN stripped \o NumberToString(fileCount)
                 ELSE stripped
    IN  IF configured # Undefined /\ configured # <<>>
        THEN configured \o NumberToString(count)
        ELSE named

\* returnItem.binary[name] = data
Assign(item, name, data) ==
    [item EXCEPT !.binary = {b \in @ : b.name # name}
                                \cup {[name |-> name, data |-> data]}]

\* The temporary files of the uploaded files
UploadedFiles(files) ==
    { <<k, i>> : k \in 1..Len(files), i \in 1..2 } \cap
    UNION { { <<k, i>> : i \in 1..files[k].files } : k \in 1..Len(files) }

\* The cursor after the file it points to: the next file of the field, or
\* the first file of the next field with fileCount 0 again.
Advance(c, files) ==
    IF c.file < files[c.key].files
    THEN [c EXCEPT !.file = @ + 1]
    ELSE [c EXCEPT !.key = @ + 1, !.file = 1, !.fileCount = 0]

\* await context.nodeHelpers.copyBinaryFile(file.filepath, ..) for the file
\* under the cursor; count += 1 follows at once in AgentPublisher.node.ts.
FormCopy ==
    /\ capturePc = "form" /\ cursor.key <= Len(uploads)
    /\ \E ok \in BOOLEAN :
        LET field == uploads[cursor.key]
            name == AttachmentName(impl, field.key, field.multiFile,
                                   cursor.fileCount, cursor.count,
                                   binaryPropertyName)
            counted == [cursor EXCEPT !.fileCount =
                            IF CountsFile(impl, field.key, field.multiFile)
                            THEN @ + 1 ELSE @]
        IN  IF ok
            THEN /\ returnItem' = Assign(returnItem, name,
                                         <<cursor.key, cursor.file>>)
                 /\ IF impl = "node"
                    THEN capturePc' = "rm" /\ cursor' = counted
                    ELSE /\ capturePc' = "form"
                         /\ cursor' = Advance([counted EXCEPT !.count = @ + 1],
                                              uploads)
                 /\ UNCHANGED captureResult
            ELSE /\ capturePc' = "done"
                 /\ captureResult' = "thrown"
                 /\ UNCHANGED <<returnItem, cursor>>
    /\ UNCHANGED <<handler, concurrent, library, binaryPropertyName, uploads,
                   tmpFiles>>

\* await rm(file.filepath, { force: true }); count += 1
FormRemove ==
    /\ capturePc = "rm"
    /\ tmpFiles' = tmpFiles \ {<<cursor.key, cursor.file>>}
    /\ cursor' = Advance([cursor EXCEPT !.count = @ + 1], uploads)
    /\ capturePc' = "form"
    /\ UNCHANGED <<handler, concurrent, library, binaryPropertyName, uploads,
                   returnItem, captureResult>>

\* return { workflowData: prepareOutput(returnItem) }
FormReturn ==
    /\ capturePc = "form" /\ cursor.key > Len(uploads)
    /\ capturePc' = "done"
    /\ captureResult' = "returned"
    /\ UNCHANGED <<handler, concurrent, library, binaryPropertyName, uploads,
                   cursor, tmpFiles, returnItem>>

\* Faulty variant: cleanup is the last statement of the try block.
CleanupAtEndOfTry(files, path, outcome) ==
    IF outcome = "returning" THEN files \ {path} ELSE files

\* finally { await binaryFile.cleanup() }
Cleanup(files, path, outcome) == files \ {path}

\* const binaryFile = await tmpFile({ prefix: 'n8n-webhook-' })
BinaryTmpFile ==
    /\ capturePc = "tmpFile"
    /\ \E ok \in BOOLEAN :
        IF ok
        THEN /\ tmpFiles' = tmpFiles \cup {<<0, 0>>}
             /\ cursor' = [cursor EXCEPT !.count = 1]
             /\ capturePc' = "pipeline"
             /\ UNCHANGED captureResult
        ELSE /\ capturePc' = "done"
             /\ captureResult' = "thrown"
             /\ UNCHANGED <<tmpFiles, cursor>>
    /\ UNCHANGED <<handler, concurrent, library, binaryPropertyName, uploads,
                   returnItem>>

\* await pipeline(req, createWriteStream(binaryFile.path))
BinaryPipeline ==
    /\ capturePc = "pipeline"
    /\ \E ok \in BOOLEAN :
        IF ok
        THEN capturePc' = "stat" /\ UNCHANGED captureResult
        ELSE capturePc' = "cleanup" /\ captureResult' = "throwing"
    /\ UNCHANGED <<handler, concurrent, library, binaryPropertyName, uploads,
                   cursor, tmpFiles, returnItem>>

\* const stats = await stat(binaryFile.path); if (stats.size) { .. }
BinaryStat ==
    /\ capturePc = "stat"
    /\ \E outcome \in {"empty", "data", "error"} :
        CASE outcome = "data" -> capturePc' = "copy" /\ UNCHANGED captureResult
          [] outcome = "empty" ->
                capturePc' = "cleanup" /\ captureResult' = "returning"
          [] OTHER -> capturePc' = "cleanup" /\ captureResult' = "throwing"
    /\ UNCHANGED <<handler, concurrent, library, binaryPropertyName, uploads,
                   cursor, tmpFiles, returnItem>>

\* returnItem.binary = { [options.binaryPropertyName ?? 'data']:
\*     await context.nodeHelpers.copyBinaryFile(binaryFile.path, ..) }
BinaryCopy ==
    /\ capturePc = "copy"
    /\ \E ok \in BOOLEAN :
        IF ok
        THEN /\ returnItem' = Assign(returnItem,
                                     IF binaryPropertyName = Undefined
                                     THEN <<"d", "a", "t", "a">>
                                     ELSE binaryPropertyName,
                                     <<0, 0>>)
             /\ captureResult' = "returning"
        ELSE /\ captureResult' = "throwing"
             /\ UNCHANGED returnItem
    /\ capturePc' = "cleanup"
    /\ UNCHANGED <<handler, concurrent, library, binaryPropertyName, uploads,
                   cursor, tmpFiles>>

\* The finally block, then the return of the try block or the throw of the
\* catch block (a NodeOperationError).
BinaryCleanup ==
    /\ capturePc = "cleanup"
    /\ tmpFiles' = Cleanup(tmpFiles, <<0, 0>>, captureResult)
    /\ captureResult' = IF captureResult = "returning" THEN "returned" ELSE "thrown"
    /\ capturePc' = "done"
    /\ UNCHANGED <<handler, concurrent, library, binaryPropertyName, uploads,
                   cursor, returnItem>>

\* handleBinaryData or handleFormData is entered; the files of a multipart
\* request are in the temporary directory.
CaptureInit ==
    /\ HandlerInit({PlainAdmission})
    /\ LibraryIdle
    /\ impl # "part002"
    /\ ~isRespondToWebhookConnected
    /\ ConcurrentIdle
    /\ binaryPropertyName \in BinaryPropertyNames
    /\ returnItem = NoItem
    /\ captureResult = "none"
    /\ \/ /\ capturePc = "tmpFile"
          /\ uploads = <<>>
          /\ cursor = [NoCursor EXCEPT !.op = "binary"]
          /\ tmpFiles = {}
       \/ /\ capturePc = "form"
          /\ uploads \in UploadSamples
          /\ cursor = [NoCursor EXCEPT !.op = "form", !.key = 1, !.file = 1]
          /\ tmpFiles = UploadedFiles(uploads)

CaptureNext ==
    \/ FormCopy
    \/ FormRemove
    \/ FormReturn
    \/ BinaryTmpFile
    \/ BinaryPipeline
    \/ BinaryStat
    \/ BinaryCopy
    \/ BinaryCleanup

CaptureSpec == CaptureInit /\ [][CaptureNext]_vars

(***************************************************************************)
(* The output connection of a request when several HTTP methods are        *)
(* configured: setupOutputConnection builds one outputs array for the      *)
(* request and returns prepareOutput, which the capture operations and     *)
(* the handler apply.  An item is named by a string; "undefined" is the    *)
(* value of workflowData[0][0] when output 0 is empty.                     *)
(***************************************************************************)
\* The configured method lists: the lists without repetition
MethodLists ==
    LET methods == {"GET", "POST", "PUT"}
    IN  { list \in UNION { [1..n -> methods] : n \in 1..3 } :
            \A i, j \in 1..Len(list) : list[i] = list[j] => i = j }

\* prepareOutput: outputs[outputIndex] = [outputData]; return outputs.  An
\* assignment at index -1 adds no element.
PrepareOutput(outs, outputIndex, outputData) ==
    IF outputIndex \in 1..Len(outs)
    THEN [outs EXCEPT ![outputIndex] = <<outputData>>]
    ELSE outs

\* workflowData[0][0]
FirstItem(data) ==
    IF Len(data) > 0 /\ Len(data[1]) > 0 THEN data[1][1] ELSE "undefined"

\* The capture of the request.  handleBinaryData and handleFormData apply
\* prepareOutput to their returnItem: the standard processing returns that
\* result, handleX402Payment of X402Webhook.node.ts takes
\* workflowData[0][0] of it as requestData.  Otherwise the record is built
\* in place.
OutputCapture ==
    /\ outputPc = "capture"
    /\ \E kind \in CaptureKinds, payment \in BOOLEAN :
        LET captureApplies == kind \in {"binary", "multipart"}
            prepared == IF captureApplies
                        THEN PrepareOutput(outputs,
                                 IndexOf(httpMethod, requestMethod), "returnItem")
                        ELSE outputs
        IN  /\ outputs' = prepared
            /\ IF payment /\ impl = "node"
               THEN /\ requestData' = IF captureApplies THEN FirstItem(prepared)
                                      ELSE "returnItem"
                    /\ outputPc' = "merge"
                    /\ UNCHANGED workflowData
               ELSE IF captureApplies
               THEN /\ workflowData' = prepared
                    /\ outputPc' = "done"
                    /\ UNCHANGED requestData
               ELSE /\ requestData' = "returnItem"
                    /\ outputPc' = "forward"
                    /\ UNCHANGED workflowData
    /\ UNCHANGED <<handler, staging, concurrent, httpMethod, requestMethod,
                   serialization, publication, search>>

\* requestData.json = { ...requestData.json, ...paymentDetails }: a
\* TypeError when requestData is undefined, answered by a catch block of
\* handleX402Payment, and nothing is returned for the workflow.
OutputMerge ==
    /\ outputPc = "merge"
    /\ outputPc' = IF requestData = "undefined" THEN "failed" ELSE "forward"
    /\ UNCHANGED <<handler, staging, concurrent, httpMethod, requestMethod,
                   outputs, requestData, workflowData, serialization,
                   publication, search>>

\* return { workflowData: prepareOutput(requestData) }
OutputForward ==
    /\ outputPc = "forward"
    /\ outputs' = PrepareOutput(outputs, IndexOf(httpMethod, requestMethod),
                                requestData)
    /\ workflowData' = outputs'
    /\ outputPc' = "done"
    /\ UNCHANGED <<handler, staging, concurrent, httpMethod, requestMethod,
                   requestData, serialization, publication, search>>

\* setupOutputConnection was called for a request whose method is one of
\* the configured ones: outputs = httpMethod.map(() => []).
OutputInit ==
    /\ HandlerInit({PlainAdmission})
    /\ impl # "part002"
    /\ ~isRespondToWebhookConnected
    /\ StagingIdle /\ ConcurrentIdle
    /\ SerializationIdle /\ PublicationIdle /\ SearchIdle
    /\ httpMethod \in MethodLists
    /\ requestMethod \in {httpMethod[i] : i \in 1..Len(httpMethod)}
    /\ outputs = [i \in 1..Len(httpMethod) |-> <<>>]
    /\ requestData = ""
    /\ workflowData = <<>>
    /\ outputPc = "capture"

OutputNext ==
    \/ OutputCapture
    \/ OutputMerge
    \/ OutputForward

OutputSpec == OutputInit /\ [][OutputNext]_vars

(***************************************************************************)
(* safeStringify and safeClone of AgentPublisher.node.ts.  An object graph *)
(* is a function from objects to the sequences of their property values,   *)
(* themselves objects; object 1 is the one handed to safeStringify.  The   *)
(* result is the structure of the JSON text, which is also what JSON.parse *)
(* builds from it: an object with its properties, or the string            *)
(* '[Circular]'.                                                           *)
(***************************************************************************)
\* The objects of a graph
Objects == {1, 2, 3}

\* The object graphs: every object has up to two properties
ObjectGraphs ==
    [Objects -> UNION { [1..n -> Objects] : n \in {0, 1, 2} }]

\* return '[Circular]'
Circular == [circular |-> TRUE, props |-> <<>>]

\* JSON.stringify(obj, replacer) below value: the replacer is called on the
\* value before its properties are visited in order; seen is the one
\* WeakSet of the call, to which every visited object is added and from
\* which none is removed.
RECURSIVE SafeStringify(_, _, _)
RECURSIVE StringifyProperties(_, _, _)
SafeStringify(g, value, seen) ==
    IF value \in seen
    THEN [seen |-> seen, text |-> Circular]
    ELSE LET inner == StringifyProperties(g, g[value], seen \cup {value})
         IN  [seen |-> inner.seen,
              text |-> [circular |-> FALSE, props |-> inner.texts]]

StringifyProperties(g, values, seen) ==
    IF values = <<>>
    THEN [seen |-> seen, texts |-> <<>>]
    ELSE LET first == SafeStringify(g, Head(values), seen)
             rest == StringifyProperties(g, Tail(values), first.seen)
         IN  [seen |-> rest.seen, texts |-> <<first.text>> \o rest.texts]

\* safeStringify(obj), and safeClone(obj) which parses its text
SafeClone ==
    /\ graph # <<>> /\ stringified = <<>>
    /\ stringified' = <<SafeStringify(graph, 1, {}).text>>
    /\ UNCHANGED <<handler, staging, concurrent, outputConnection, graph,
                   publication, search>>

SerializationInit ==
    /\ HandlerInit({PlainAdmission})
    /\ impl = "node"
    /\ ~isRespondToWebhookConnected
    /\ StagingIdle /\ ConcurrentIdle
    /\ OutputIdle /\ PublicationIdle /\ SearchIdle
    /\ graph \in ObjectGraphs
    /\ stringified = <<>>

SerializationNext == SafeClone

SerializationSpec == SerializationInit /\ [][SerializationNext]_vars

(***************************************************************************)
(* AgentPublisher.execute: for each input item the workflow is fetched,    *)
(* its X402 webhook node located, the agent registered and the webhook URL *)
(* updated.  A step is the code between two awaits; calls is the log of    *)
(* the outbound requests with their outcomes.                              *)
(***************************************************************************)
\* The input items
InputItems == {1, 2}

\* What the fetched workflow holds: no webhook node, a standard webhook
\* node, an X402 webhook node, an X402 webhook node without webhookId
Workflows == {"none", "webhook", "x402", "x402NoId"}

\* Faulty variant: any webhook node is taken.
FindAnyWebhookNode(workflow) ==
    CASE workflow = "none" -> "throws"
      [] workflow = "x402NoId" -> "undefined"
      [] OTHER -> "id"

\* workflowResponse.nodes.filter(node.type === 'CUSTOM.zyndX402Webhook')
\* [0].webhookId: a TypeError when no node passes the filter
FindWebhookNode(workflow) ==
    CASE workflow \in {"none", "webhook"} -> "throws"
      [] workflow = "x402NoId" -> "undefined"
      [] OTHER -> "id"

\* await this.helpers.httpRequest({ method, .. }) is issued
Issue(log, i, method) ==
    Append(log, [item |-> i, call |-> method, outcome |-> "pending",
                 workflow |-> ""])

\* The call awaited, the last one issued, returns or throws
Returned(log, outcome, workflow) ==
    [log EXCEPT ![Len(log)] = [@ EXCEPT !.outcome = outcome,
                                        !.workflow = workflow]]

\* The catch block of the item: an error record and the next item with
\* continueOnFail, a thrown Error otherwise.  Then the loop test.
ItemEnds(success) ==
    /\ returnData' = IF success \/ continueOnFail
                     THEN Append(returnData, [item |-> itemIndex,
                                              success |-> success])
                     ELSE returnData
    /\ publishPc' = IF ~success /\ ~continueOnFail THEN "thrown"
                    ELSE IF itemIndex + 1 \in InputItems THEN "fetch"
                    ELSE "returned"
    /\ itemIndex' = IF ~success /\ ~continueOnFail THEN itemIndex
                    ELSE itemIndex + 1

\* Step 1: GET the workflow JSON
PublishFetch ==
    /\ publishPc = "fetch"
    /\ calls' = Issue(calls, itemIndex, "GET")
    /\ publishPc' = "fetching"
    /\ UNCHANGED <<handler, staging, concurrent, outputConnection,
                   serialization, search, continueOnFail, itemIndex,
                   webHookId, returnData>>

\* Steps 2 to 4: the webhook node is located in the fetched workflow, the
\* workflow is sanitized and the registration POST is issued
PublishFetchReturns ==
    /\ publishPc = "fetching"
    /\ \E ok \in BOOLEAN, workflow \in Workflows :
        LET found == FindWebhookNode(workflow)
            log == Returned(calls, IF ok THEN "ok" ELSE "failed",
                            IF ok THEN workflow ELSE "")
        IN  IF ok /\ found # "throws"
            THEN /\ webHookId' = found
                 /\ calls' = Issue(log, itemIndex, "POST")
                 /\ publishPc' = "registering"
                 /\ UNCHANGED <<itemIndex, returnData>>
            ELSE /\ calls' = log
                 /\ ItemEnds(FALSE)
                 /\ UNCHANGED webHookId
    /\ UNCHANGED <<handler, staging, concurrent, outputConnection,
                   serialization, search, continueOnFail>>

\* Steps 5 and 6: the wallet is derived from the seed of the registration;
\* the PATCH is issued if (webHookId), else the record is built
PublishRegisterReturns ==
    /\ publishPc = "registering"
    /\ \E ok \in BOOLEAN, seed \in BOOLEAN :
        LET log == Returned(calls, IF ok THEN "ok" ELSE "failed", "")
        IN  IF ok /\ seed /\ webHookId = "id"
            THEN /\ calls' = Issue(log, itemIndex, "PATCH")
                 /\ publishPc' = "updating"
                 /\ UNCHANGED <<itemIndex, returnData>>
            ELSE /\ calls' = log
                 /\ ItemEnds(ok /\ seed)
    /\ UNCHANGED <<handler, staging, concurrent, outputConnection,
                   serialization, search, continueOnFail, webHookId>>

\* Step 7: the success record, once the PATCH returned
PublishUpdateReturns ==
    /\ publishPc = "updating"
    /\ \E ok \in BOOLEAN :
        /\ calls' = Returned(calls, IF ok THEN "ok" ELSE "failed", "")
        /\ ItemEnds(ok)
    /\ UNCHANGED <<handler, staging, concurrent, outputConnection,
                   serialization, search, continueOnFail, webHookId>>

PublicationInit ==
    /\ HandlerInit({PlainAdmission})
    /\ impl = "node"
    /\ ~isRespondToWebhookConnected
    /\ StagingIdle /\ ConcurrentIdle
    /\ OutputIdle /\ SerializationIdle /\ SearchIdle
    /\ publishPc = "fetch"
    /\ continueOnFail \in BOOLEAN
    /\ itemIndex = 1
    /\ webHookId = ""
    /\ calls = <<>>
    /\ returnData = <<>>

PublicationNext ==
    \/ PublishFetch
    \/ PublishFetchReturns
    \/ PublishRegisterReturns
    \/ PublishUpdateReturns

PublicationSpec == PublicationInit /\ [][PublicationNext]_vars

(***************************************************************************)
(* SearchAgent.execute of part_003 for one input item: the searches by     *)
(* name, keyword and capabilities are merged in agentMap.  An agent is a   *)
(* record of its id, the search that returned it and its position in that  *)
(* response; id 0 stands for a missing id.                                 *)
(***************************************************************************)
\* The response.data of a search: up to two agents, by id
AgentIdLists == UNION { [1..n -> {0, 1, 2}] : n \in {0, 1, 2} }

\* The agents of a response
AgentsOf(label, ids) ==
    [k \in 1..Len(ids) |-> [id |-> ids[k], search |-> label, position |-> k]]

\* Faulty variant: an agent replaces the agent stored under its id.
RECURSIVE AddToMapKeepsLast(_, _)
AddToMapKeepsLast(map, agents) ==
    IF agents = <<>> THEN map
    ELSE LET agent == Head(agents)
         IN  AddToMapKeepsLast(
                 IF agent.id = 0 THEN map
                 ELSE Append(SelectSeq(map, LAMBDA a : a.id # agent.id), agent),
                 Tail(agents))

\* addToMap: if (agent.id && !agentMap.has(agent.id)) agentMap.set(..)
RECURSIVE AddToMap(_, _)
AddToMap(map, agents) ==
    IF agents = <<>> THEN map
    ELSE LET agent == Head(agents)
         IN  AddToMap(
                 IF agent.id # 0 /\ \A k \in 1..Len(map) : map[k].id # agent.id
                 THEN Append(map, agent) ELSE map,
                 Tail(agents))

\* The search after the search label, "" after the last one
SearchAfter(label, withKeyword, withCapabilities) ==
    CASE label = "" /\ withKeyword -> "name"
      [] label = "name" -> "keyword"
      [] label = "keyword" /\ withCapabilities -> "capabilities"
      [] label = "" /\ ~withKeyword /\ withCapabilities -> "capabilities"
      [] label = "" /\ ~withKeyword /\ ~withCapabilities -> "all"
      [] OTHER -> ""

\* await fetchAgents(..) returns or throws; addToMap(results)
FetchAgentsReturns ==
    /\ searchPc \in {"name", "keyword", "capabilities", "all"}
    /\ \E ok \in BOOLEAN, ids \in AgentIdLists :
        IF ok
        THEN /\ responses' = Append(responses, AgentsOf(searchPc, ids))
             /\ agentMap' = AddToMap(agentMap, AgentsOf(searchPc, ids))
             /\ searchPc' = LET next == SearchAfter(searchPc, keyword,
                                                    capabilitiesCsv)
                            IN  IF next = "" THEN "combine" ELSE next
        ELSE /\ searchPc' = "failed"
             /\ UNCHANGED <<responses, agentMap>>
    /\ UNCHANGED <<handler, staging, concurrent, outputConnection,
                   serialization, publication, keyword, capabilitiesCsv,
                   summary>>

\* combinedAgents = Array.from(agentMap.values()); the summary with
\* count: combinedAgents.length, then one record for each agent
SearchEmit ==
    /\ searchPc = "combine"
    /\ summary' = [count |-> Len(agentMap), agents |-> agentMap]
    /\ searchPc' = "done"
    /\ UNCHANGED <<handler, staging, concurrent, outputConnection,
                   serialization, publication, keyword, capabilitiesCsv,
                   responses, agentMap>>

SearchInit ==
    /\ HandlerInit({PlainAdmission})
    /\ impl = "node"
    /\ ~isRespondToWebhookConnected
    /\ StagingIdle /\ ConcurrentIdle
    /\ OutputIdle /\ SerializationIdle /\ PublicationIdle
    /\ keyword \in BOOLEAN
    /\ capabilitiesCsv \in BOOLEAN
    /\ searchPc = SearchAfter("", keyword, capabilitiesCsv)
    /\ responses = <<>>
    /\ agentMap = <<>>
    /\ summary = NoSummary

SearchNext ==
    \/ FetchAgentsReturns
    \/ SearchEmit

SearchSpec == SearchInit /\ [][SearchNext]_vars

(***************************************************************************)
(* Properties.                                                             *)
(***************************************************************************)
\* C1: settle is invoked, awaited or in the background, only after verify
\* returned isValid=true for the same request; after a missing header, a
\* decode failure, an isValid=false result or a verify call that threw, the
\* request never reaches settling or settled.
SettleOnlyAfterValidVerify ==
    /\ (settleCalls > 0 \/ pc = "settling" \/ settleResult # "none")
            => (verifyResult = "valid" /\ verifyCalls = 1 /\ decodedPayment)
    /\ \A i \in 1..Len(trace) :
            trace[i] = "settle" => \E j \in 1..(i - 1) : trace[j] = "verify"
    /\ (paymentHeader \in {"absent", "malformed"} \/ verifyResult \in {"invalid", "threw"})
            => (settleCalls = 0 /\ settleResult = "none" /\ pc # "settling")

SettleAfterValidVerifyReached ==
    settleCalls = 1 /\ verifyResult = "valid" /\ settleResult = "success"

\* C2: a request that reaches the payment gate (payment required, offer
\* built) without an X-PAYMENT header gets exactly one response: status 402,
\* accepts holding exactly the one PaymentRequirements built from the
\* configured price, network and recipient; verify and settle are not
\* called, nothing is forwarded and the host writes nothing.
MissingHeaderGets402 ==
    paymentHeader = "absent" =>
        /\ requirePayment
        /\ resp.heads = 1 /\ resp.ends = 1 /\ resp.hostWrites = 0
        /\ resp.status = 402
        /\ resp.error = "X-PAYMENT header is required"
        /\ Len(resp.accepts) = 1
        /\ resp.accepts[1] = paymentRequirements
        /\ resp.accepts[1].network = networkName
        /\ resp.accepts[1].payTo = serverWalletAddress
        /\ resp.accepts[1].maxAmountRequired = AtomicAmount(price)
        /\ (price = <<"$", "0", ".", "5", "0">>
                => resp.accepts[1].maxAmountRequired = 500000)
        /\ ret = StopProcessing
        /\ verifyCalls = 0 /\ settleCalls = 0
        /\ ~record.forwarded

MissingHeaderReached ==
    /\ paymentHeader = "absent" /\ resp.status = 402
    /\ price = <<"$", "0", ".", "5", "0">> /\ networkName = "base-sepolia"

\* C3 (as stated): in synchronous mode a verified request whose settle call
\* fails (a result with success=false) or throws ends with status 402 and
\* accepts=[requirements], is not forwarded and gets no success response.
UnsettledNeverAdmitted ==
    (pc = "done" /\ settlementMode = "sync" /\ verifyResult = "valid"
        /\ settleResult \in {"failed", "threw"})
    => /\ resp.status = 402
       /\ resp.accepts = <<paymentRequirements>>
       /\ ~record.forwarded /\ ~ret.workflowData
       /\ resp.body # "success"

\* C4 (as stated): in asynchronous mode every verified request that is
\* forwarded to the workflow has had settle fired exactly once, in every
\* response mode.
AsyncSettleFiredOnce ==
    (settlementMode = "async" /\ verifyResult = "valid" /\ ret.workflowData)
        => settleCalls = 1

\* C5 (as stated): in synchronous mode, whenever settle succeeded, the
\* response of the request carries X-PAYMENT-RESPONSE, whatever the response
\* mode.
SyncSuccessAttachesHeader ==
    (pc = "done" /\ settlementMode = "sync" /\ settleResult = "success"
        /\ ret.workflowData)
    => resp.xPaymentResponse

\* C6: in asynchronous mode the response never carries X-PAYMENT-RESPONSE,
\* the completion of the background settlement (success, failure, throw)
\* changes neither the response nor the handler's result nor the forwarded
\* record, and what the handler returned stays as it is whether or not the
\* settlement ever completes.
AsyncOutcomeInvisible ==
    /\ [](settlementMode = "async" => ~resp.xPaymentResponse)
    /\ [][(settlementMode = "async" /\ settleResult = "pending"
              /\ settleResult' # settleResult)
            => UNCHANGED <<resp, ret, record, pc>>]_vars
    /\ [][(settlementMode = "async" /\ pc = "done")
            => UNCHANGED <<ret, record>>]_vars

AsyncOutcomeReached ==
    /\ settlementMode = "async" /\ settleResult = "failed"
    /\ ret.workflowData /\ record.forwarded /\ resp.body = "success"

\* C7: the node writes the response head at most once and ends the response
\* at most once on every path, exception paths included; when it wrote, its
\* result tells the host not to respond, and when it did not write, the host
\* is left to respond (exactly one terminal disposition).
OneTerminalDisposition ==
    /\ resp.heads <= 1 /\ resp.ends <= 1 /\ resp.hostWrites <= 1
    /\ ~(resp.heads > 0 /\ resp.hostWrites > 0)
    /\ pc = "done" =>
        ((resp.heads > 0) <=> (ret.kind = "returned" /\ ret.noWebhookResponse))

OneDispositionOnExceptionPath ==
    /\ pc = "done" /\ resp.error = "Payment processing error"
    /\ resp.heads = 1 /\ resp.ends = 1 /\ verifyResult = "valid"

AdmissionErrors == {"IP is not whitelisted"} \cup (AuthOutcomes \ {"pass"})

AdmissionRejected == resp.error \in AdmissionErrors

\* C8: a request rejected by the admission filter (IP allowlist, bot filter,
\* authentication) never gets payment work: no requirements, no header read
\* or decode, no verify, no settle, no capture, nothing forwarded.
RejectedDoesNoPaymentWork ==
    AdmissionRejected =>
        /\ pc = "done" /\ ret = StopProcessing
        /\ paymentRequirements = NoRequirements
        /\ paymentHeader = "unread" /\ ~decodedPayment
        /\ verifyCalls = 0 /\ settleCalls = 0 /\ settleResult = "none"
        /\ captured = "none"
        /\ ~record.forwarded
        /\ trace = <<>>

RejectedReached == AdmissionRejected /\ resp.status = 403 /\ resp.hostWrites = 0

\* C9 (as stated): with "require payment" enabled and a price matching
\* ^\$?0+(\.0+)?$ the payment is waived: no requirements are built, no 402
\* and no payment-configuration 500 is produced, verify and settle are not
\* called.
ZeroPriceWaivesPayment ==
    (requirePayment /\ price # <<>> /\ ZeroPriceRegex(price))
    => /\ paymentRequirements = NoRequirements
       /\ pc \notin {"requirements", "header", "verifying", "settling"}
       /\ resp.status # 402
       /\ resp.error # "Configuration Error"
       /\ verifyCalls = 0 /\ settleCalls = 0

\* C10: when the header decoded but verify returned isValid=false or threw,
\* the response is 402 with the requirements re-attached in accepts (with
\* invalidReason and payer when verify returned a result), settle is not
\* called and the request is not forwarded.
FailedVerifyGets402 ==
    verifyResult \in {"invalid", "threw"} =>
        /\ decodedPayment /\ verifyCalls = 1
        /\ resp.heads = 1 /\ resp.ends = 1
        /\ resp.status = 402
        /\ resp.accepts = <<paymentRequirements>>
        /\ paymentRequirements # NoRequirements
        /\ (verifyResult = "invalid" => resp.error = "invalidReason" /\ resp.payer)
        /\ (verifyResult = "threw" => resp.error = "verify error" /\ ~resp.payer)
        /\ settleCalls = 0 /\ settleResult = "none"
        /\ ret = StopProcessing
        /\ ~record.forwarded

FailedVerifyReached ==
    verifyResult = "threw" /\ resp.status = 402 /\ pc = "done"

\* C11: an X-PAYMENT header that fails scheme decoding is answered with 402
\* carrying the decode error message and the accepts payload of the
\* missing-header response for the same configuration; no payment payload is
\* produced, verify and settle are not called and nothing is forwarded.
DecodeFailureGets402 ==
    paymentHeader = "malformed" =>
        /\ pc = "done"
        /\ resp.heads = 1 /\ resp.ends = 1
        /\ resp.status = 402
        /\ resp.error = "decode error"
        /\ resp.accepts = MissingHeaderResponse(FreshResponse, paymentRequirements).accepts
        /\ resp.accepts = <<BuildPaymentRequirements(price, networkName,
                                                      serverWalletAddress)>>
        /\ ~decodedPayment
        /\ verifyCalls = 0 /\ verifyResult = "none"
        /\ settleCalls = 0 /\ settleResult = "none"
        /\ ret = StopProcessing
        /\ ~record.forwarded

DecodeFailureReached ==
    /\ paymentHeader = "malformed" /\ resp.status = 402
    /\ Len(resp.accepts) = 1 /\ resp.accepts[1].maxAmountRequired = 500000

\* C12: a missing facilitator URL, a price that does not convert to an
\* atomic amount for the network, or an asset without EIP-712 metadata is
\* answered with 500 "Configuration Error", never 402, before the X-PAYMENT
\* header is read, before verify or settle is called and before any request
\* capture; nothing is forwarded.
ConfigurationErrorGets500 ==
    /\ (facilitatorUrl = "" \/ atomicAmountForAsset \in {"error", "noEip712"})
        => /\ pc = "done"
           /\ resp.heads = 1 /\ resp.ends = 1 /\ resp.hostWrites = 0
           /\ resp.status = 500
           /\ resp.error = "Configuration Error"
           /\ resp.accepts = <<>>
           /\ ret = StopProcessing
           /\ paymentRequirements = NoRequirements
           /\ paymentHeader = "unread" /\ ~decodedPayment
           /\ verifyCalls = 0 /\ settleCalls = 0
           /\ captured = "none" /\ trace = <<>>
           /\ ~record.forwarded
    /\ (atomicAmountForAsset # "none" /\ ~PriceParses(price))
        => atomicAmountForAsset = "error"

ConfigurationErrorReached ==
    /\ atomicAmountForAsset = "error" /\ price = <<"$", "x">>
    /\ facilitatorUrl # "" /\ resp.status = 500

HasMalformedEntry(allowlist) ==
    /\ allowlist \notin {Undefined, <<>>}
    /\ \E i \in 1..Len(AllowlistEntries(allowlist)) :
            IsMalformedEntry(AllowlistEntries(allowlist)[i])

\* C13 (as stated): a request handled while a malformed allowlist entry is
\* configured, or whose verify or awaited settle call fails at the network
\* level, is answered with 500 "Configuration Error" and never with 402.
UnreachableOrMalformedGets500 ==
    (/\ pc = "done" /\ ret.kind = "returned"
     /\ resp.heads > 0 \/ resp.hostWrites > 0
     /\ \/ verifyResult = "threw"
        \/ settlementMode = "sync" /\ settleResult = "threw"
        \/ impl # "part002" /\ HasMalformedEntry(options.ipWhitelist))
    => /\ resp.status = 500
       /\ resp.error = "Configuration Error"

IpCheckDone == impl # "part002" /\ pc \notin {"start", "ip"} /\ ret.kind # "thrown"

IpRejected == resp.error = "IP is not whitelisted"

\* C14 (as stated): with an allowlist configured a request passes the IP
\* check if and only if the direct client address or a forwarded address
\* equals a listed address or lies inside a listed range by network address
\* and prefix length; every other request is rejected with 403; with an
\* empty or absent allowlist every address passes.
AllowlistDecidesByRange ==
    IpCheckDone =>
        LET listed == \/ options.ipWhitelist \in {Undefined, <<>>}
                      \/ MatchesAllowlist(options.ipWhitelist, req.ips, req.ip)
        IN  /\ listed <=> ~IpRejected
            /\ IpRejected => resp.status = 403 /\ ret = StopProcessing

AuthCheckDone ==
    /\ IpCheckDone /\ ~IpRejected /\ pc # "auth"
    /\ ~(options.ignoreBots /\ IsBot(req.userAgent))

AuthRejectedWith(code, label) ==
    resp.status = code /\ resp.error = label /\ ret = StopProcessing

AuthPassed == resp.error \notin AdmissionErrors

\* The user-id and password of a Basic header: the decoded text before and
\* after its first colon.
PresentedBasic ==
    LET decoded == Base64Decode(Split(req.authorization, " ")[2])
        colon == IndexOf(decoded, ":")
    IN  IF colon = 0 THEN [user |-> decoded, password |-> Undefined]
        ELSE [user |-> SubSeq(decoded, 1, colon - 1),
              password |-> SubSeq(decoded, colon + 1, Len(decoded))]

HasBasicHeader == StartsWith(req.authorization, <<"B", "a", "s", "i", "c", " ">>)

BasicStored == expectedAuth.defined /\ expectedAuth.user # <<>> /\ expectedAuth.password # <<>>

HeaderStored == expectedAuth.defined /\ expectedAuth.name # <<>> /\ expectedAuth.value # <<>>

BasicMatches ==
    /\ HasBasicHeader
    /\ PresentedBasic.user = expectedAuth.user
    /\ PresentedBasic.password = expectedAuth.password

HeaderMatches ==
    /\ req.headerName = ToLowerCase(expectedAuth.name)
    /\ req.headerValue = expectedAuth.value

\* C15 (as stated): for a request that passed the IP and bot checks, mode
\* none passes; basicAuth with stored credentials answers a missing
\* Authorization Basic header with 401 and a user or password mismatch with
\* 403; headerAuth answers an absent or different header with 403; basicAuth
\* or headerAuth without stored credential data answers 500; and a request
\* passes only when the presented credentials equal the stored ones.
AuthenticationDecides ==
    AuthCheckDone =>
        /\ authentication = "none" => AuthPassed
        /\ authentication = "basicAuth" =>
            /\ ~BasicStored => AuthRejectedWith(500, "auth500")
            /\ (BasicStored /\ ~HasBasicHeader) => AuthRejectedWith(401, "auth401")
            /\ (BasicStored /\ HasBasicHeader /\ ~BasicMatches)
                    => AuthRejectedWith(403, "auth403")
            /\ AuthPassed => (BasicStored /\ BasicMatches)
        /\ authentication = "headerAuth" =>
            /\ ~HeaderStored => AuthRejectedWith(500, "auth500")
            /\ (HeaderStored /\ ~HeaderMatches) => AuthRejectedWith(403, "auth403")
            /\ AuthPassed => (HeaderStored /\ HeaderMatches)

BasicAuthFailure ==
    /\ authentication = "basicAuth"
    /\ resp.error \in {"auth401", "auth403"}

\* C16 (as stated): the response to an admission rejection carries
\* WWW-Authenticate: Basic when the rejection is a basic-auth failure (401 or
\* 403 of basicAuth with stored credentials); the rejections by the IP
\* allowlist, the bot filter, header authentication or missing credential
\* data do not carry it.
ChallengeOnlyForBasicAuth ==
    AdmissionRejected => (resp.wwwAuthenticate <=> BasicAuthFailure)

\* The handler ended with the configuration error and ran no admission,
\* payment, capture or delivery step.
FailedFast ==
    /\ ret = Thrown
    /\ resp.heads = 0 /\ resp.ends = 0 /\ resp.error = ""
    /\ paymentRequirements = NoRequirements /\ paymentHeader = "unread"
    /\ verifyCalls = 0 /\ settleCalls = 0
    /\ captured = "none" /\ ~record.forwarded
    /\ trace = <<>>

\* C17 (as stated): with response mode responseNode and no Respond to
\* Webhook node connected, the handler ends with the configuration error
\* before any admission, payment or capture step, and never returns a normal
\* result (a response, or a forwarded record).
MissingResponderFailsFast ==
    (pc = "done" /\ responseMode = "responseNode" /\ ~isRespondToWebhookConnected)
        => FailedFast

\* C18 (as stated): with a Respond to Webhook node connected and a response
\* mode other than responseNode, the handler ends with the configuration
\* error before the request is processed.
UnusedResponderFailsFast ==
    (pc = "done" /\ isRespondToWebhookConnected
        /\ responseMode \in ResponseModes \ {"responseNode"})
        => FailedFast

\* The place of a stage in the order requirements, verify (with the decode
\* before it), settle, capture, delivery.
StageRank(stage) ==
    CASE stage = "requirements" -> 1
      [] stage \in {"decode", "verify"} -> 2
      [] stage = "settle" -> 3
      [] stage = "capture" -> 4
      [] OTHER -> 5

\* C19 (as stated): the stages of a request run in the order admission,
\* requirements, verify, settle, capture, delivery, the detached settlement
\* of asynchronous mode excepted; in synchronous mode the capture of the
\* request does not begin before the settle call completed successfully.
StagesInOrder ==
    /\ trace # <<>> => ~AdmissionRejected
    /\ \A i, j \in 1..Len(trace) :
            i < j => \/ StageRank(trace[i]) <= StageRank(trace[j])
                     \/ settlementMode = "async" /\ trace[j] = "settle"
    /\ (settlementMode = "sync" /\ \E i \in 1..Len(trace) : trace[i] = "capture")
            => settleResult = "success"

\* C20 (as stated): the payment metadata of the forwarded record reflects
\* the settlement state reached: verified and settled for a request admitted
\* in synchronous mode, verified and not settled for one admitted in
\* asynchronous mode.
MetadataReflectsSettlement ==
    (pc = "done" /\ record.forwarded /\ record.payment)
    => /\ verifyResult = "valid" /\ record.verified
       /\ record.settlementMode = settlementMode
       /\ settlementMode = "sync" => record.settled
       /\ settlementMode = "async" => ~record.settled

\* C21 (as stated): the payment metadata is merged into the forwarded
\* record exactly when payment was required, the price was not waived and
\* the include-payment-details setting is true or not set; a waived or
\* payment-free request never carries payment metadata.
MetadataExactlyWhenRequired ==
    (pc = "done" /\ record.forwarded) =>
        (record.payment <=> /\ requirePayment
                            /\ ~IsZeroPrice(price)
                            /\ detailsOption \in {"true", "unset"})

\* C22: a failure of the background settlement, a failure raised while its
\* result is post-processed included, is caught in the background task: the
\* promise chain never ends in an unhandled rejection, its end changes
\* neither the position nor the result of the handler nor the forwarded
\* record, writes nothing more to the response, and no response reports it.
BackgroundFailureConfined ==
    /\ [](background # "unhandled")
    /\ [][(background = "pending" /\ background' # "pending")
            => /\ background' \in {"fulfilled", "caught", "caughtThen"}
               /\ UNCHANGED <<pc, resp, ret, record>>]_vars
    /\ [](background \in {"caught", "caughtThen"}
            => /\ resp.error = "" /\ resp.status # 402
               /\ resp.heads <= 1 /\ resp.ends <= 1)

BackgroundFailureReached ==
    /\ background = "caughtThen" /\ settleResult = "success"
    /\ resp.body = "success" /\ ret = ForwardNoResponse

\* What request t gets when it is handled alone: decided by its own verify
\* and settle results and the fate of its own capture.
AloneOutcome(t) ==
    LET task == tasks[t]
    IN  CASE task.verifyResult # "valid" -> [status |-> 402, forwarded |-> FALSE]
          [] task.settlementMode = "sync" /\ task.settleResult = "threw" ->
                [status |-> 402, forwarded |-> FALSE]
          [] task.failed -> [status |-> 500, forwarded |-> FALSE]
          [] OTHER -> [status |-> 200, forwarded |-> TRUE]

\* C23: under every interleaving of two requests each request's response
\* and forwarded record are those it gets when handled alone, its record
\* holds its own body, its temporary file is its own, and the facilitator
\* gets one verify call and at most one settle call for each payment, the
\* settle call only after that payment verified.
ConcurrentRequestsIndependent ==
    \A t \in Requests :
        LET task == tasks[t]
        IN  /\ task.body \in {0, t}
            /\ \A u \in Requests \ {t} :
                    (task.path # "" /\ task.pc \in {"pipeline", "copy", "cleanup"}
                        /\ tasks[u].pc \in {"pipeline", "copy", "cleanup"})
                    => tasks[u].path # task.path
            /\ task.pc = "done" =>
                    /\ task.status = AloneOutcome(t).status
                    /\ task.forwarded = AloneOutcome(t).forwarded
                    /\ task.forwarded => task.body = t
            /\ facilitatorCalls.verify[t] = (IF task.pc = "start" THEN 0 ELSE 1)
            /\ facilitatorCalls.settle[t] <= 1
            /\ facilitatorCalls.settle[t] = 1 =>
                    /\ task.verifyResult = "valid"
                    /\ task.settleResult # "none" \/ task.pc = "settling"

ConcurrentRequestsReached ==
    /\ \A t \in Requests :
            tasks[t].pc = "done" /\ tasks[t].binaryData /\ tasks[t].path # ""
    /\ tasks[1].status = 200 /\ tasks[1].body = 1
    /\ tasks[2].status = 402 /\ tasks[2].settleResult = "threw"

\* The request passed the admission filter and the payment gate and was
\* captured: the handler returned and no rejection or error was answered.
Admitted == pc = "done" /\ ret.kind = "returned" /\ resp.error = ""

\* C24: in responseNode mode the handler writes nothing to the response of
\* an admitted request (no head, no header, no body, no end) and forwards
\* the record, annotated where the payment details are included, leaving
\* the response to the responder; in both settlement modes and on the
\* payment-free path.
ResponseNodeWritesNothing ==
    (Admitted /\ responseMode = "responseNode") =>
        /\ resp.heads = 0 /\ resp.ends = 0 /\ resp.body = ""
        /\ [resp EXCEPT !.hostWrites = 0, !.status = 0] = FreshResponse
        /\ ret = ForwardHostResponds
        /\ record.forwarded
        /\ record.payment = (verifyResult = "valid" /\ includePaymentDetails)
        /\ record.payment => record.settlementMode = settlementMode

ResponseNodeReached ==
    /\ Admitted /\ responseMode = "responseNode"
    /\ settlementMode = "sync" /\ settleResult = "success"
    /\ record.payment /\ record.settled

\* C25 (as stated): in streaming mode the handler writes, for every
\* admitted request whatever its body type, the response head at once
\* (200, chunked, keep-alive, no-cache), does not end the response, forwards
\* the record and tells the host not to write a response.
StreamingWritesHead ==
    (Admitted /\ responseMode = "streaming") =>
        /\ resp.heads = 1 /\ resp.status = 200 /\ resp.chunked
        /\ resp.ends = 0 /\ resp.body = ""
        /\ ret = ForwardNoResponse
        /\ record.forwarded

\* C26 (as stated): on the successful payment path in onReceived mode the
\* status of the response is the response code the configuration sets, 200
\* when none is set, with synchronous and with asynchronous settlement.
SuccessStatusFromConfiguration ==
    /\ GetResponseCode(NoResponseCode) = 200
    /\ (/\ Admitted /\ responseMode = "onReceived" /\ verifyResult = "valid"
        /\ resp.heads > 0 \/ resp.hostWrites > 0)
        => resp.status = responseCode

\* C27: handleBinaryData leaves no temporary file behind: once its
\* temporary file was created, the file is gone when the operation returns
\* (with or without data) or throws (pipeline, stat or copy error).
TemporaryFileCleanedUp ==
    (cursor.op = "binary" /\ capturePc = "done") => tmpFiles = {}

TemporaryFileCleanedUpAfterError ==
    /\ cursor.op = "binary" /\ capturePc = "done"
    /\ cursor.count = 1 /\ captureResult = "thrown"
    /\ returnItem = NoItem /\ tmpFiles = {}

\* C28 (as stated): when handleFormData returns, the temporary file of
\* every uploaded file has been removed.
UploadedFilesRemoved ==
    (cursor.op = "form" /\ capturePc = "done" /\ captureResult = "returned") =>
        tmpFiles \cap UploadedFiles(uploads) = {}

\* C29 (as stated): when handleFormData returns, the record holds as many
\* attachments as files were uploaded: the names assigned are pairwise
\* distinct and no file overwrites another.
AttachmentNamesDistinct ==
    (cursor.op = "form" /\ capturePc = "done" /\ captureResult = "returned") =>
        Cardinality(returnItem.binary) = Cardinality(UploadedFiles(uploads))

\* C30 (as stated): when handleBinaryData failed on the way through the
\* handler, the request ends in an error, thrown to the host or answered
\* with a 5xx response, and nothing is forwarded to the workflow.
StagingErrorNotSwallowed ==
    (pc = "done" /\ captureResult = "thrown") =>
        /\ \/ ret.kind = "thrown"
           \/ resp.ends = 1 /\ resp.status \in 500..599
        /\ ~record.forwarded /\ ~ret.workflowData

\* The handler finished and, where the response is left to the host, the
\* host has written it.
Disposed == pc = "done" /\ (ret.noWebhookResponse \/ resp.hostWrites = 1)

\* The handler returned a rejection: no record for the workflow and no
\* success answer.
Rejected ==
    /\ pc = "done" /\ ret.kind = "returned" /\ ~ret.workflowData
    /\ resp.status \notin 200..299

\* C31: when every facilitator call and I/O operation returns or throws,
\* every request reaches a terminal disposition, and a rejection (401, 403,
\* 402, 500) has written its status code and ended the response when the
\* handler returns.
RejectionsTerminate ==
    /\ <>Disposed
    /\ [](Rejected => /\ resp.heads = 1 /\ resp.ends = 1
                      /\ resp.status \in {401, 403, 402, 500}
                      /\ ret.noWebhookResponse)

RejectionAfterSettleReached ==
    /\ Rejected /\ settlementMode = "sync" /\ settleResult = "threw"
    /\ resp.status = 402 /\ resp.ends = 1 /\ ~record.forwarded

\* C32 (as stated): with synchronous settlement the request reaches a
\* terminal disposition also when the facilitator never answers the settle
\* call.
SettleCallBounded == <>Disposed

\* C33: the offer is a function of the configuration alone: whatever the
\* request carries and whatever was handled before, its amount is the
\* atomic amount of the configured price, its network and recipient are the
\* configured ones, its resource the webhook URL.
OfferFromConfiguration ==
    paymentRequirements # NoRequirements =>
        /\ PriceParses(price)
        /\ paymentRequirements.scheme = "exact"
        /\ paymentRequirements.maxAmountRequired = AtomicAmount(price)
        /\ paymentRequirements.network = networkName
        /\ paymentRequirements.payTo = serverWalletAddress
        /\ paymentRequirements.resource = "webhookUrl"

OfferReached ==
    /\ pc = "done" /\ paymentHeader = "absent"
    /\ paymentRequirements.maxAmountRequired > 0
    /\ req.ip # <<>>
    /\ resp.status = 402 /\ resp.accepts = <<paymentRequirements>>

\* C34 (as stated): with Require Payment disabled the facilitator is never
\* contacted, no 402 and no payment Configuration Error is answered, and a
\* request that passed the admission checks is forwarded, without payment
\* metadata, although it carries no X-PAYMENT header.
PaymentDisabledAdmits ==
    (pc = "done" /\ ~requirePayment) =>
        /\ verifyCalls = 0 /\ settleCalls = 0
        /\ paymentRequirements = NoRequirements
        /\ resp.status # 402 /\ resp.error # "Configuration Error"
        /\ Admitted => /\ record.forwarded /\ ret.workflowData
                       /\ ~record.payment /\ ~record.verified

\* C35 (as stated): with several methods configured the handler ends with
\* one output list per configured method, the record on the output at the
\* position of the request's method and every other output empty, also when
\* prepareOutput was applied more than once.
RecordOnOneOutput ==
    outputPc \in {"done", "failed"} =>
        /\ Len(workflowData) = Len(httpMethod)
        /\ \A i \in 1..Len(httpMethod) :
            workflowData[i] = IF httpMethod[i] = requestMethod
                              THEN <<"returnItem">> ELSE <<>>

\* The value with every reference to one of its own ancestors replaced by
\* '[Circular]' and everything else kept.
RECURSIVE WithCyclesCut(_, _, _)
WithCyclesCut(g, value, ancestors) ==
    IF value \in ancestors
    THEN Circular
    ELSE [circular |-> FALSE,
          props |-> [i \in 1..Len(g[value]) |->
                        WithCyclesCut(g, g[value][i], ancestors \cup {value})]]

\* C36 (as stated): safeStringify returns for every object graph, cyclic
\* ones included, and replaces by '[Circular]' exactly the references that
\* close a cycle: an object reachable along two acyclic paths is serialized
\* in full at both places.
CircularExactlyOnCycles ==
    stringified # <<>> => stringified = <<WithCyclesCut(graph, 1, {})>>

\* The calls issued for an item, in the order of their issue
CallsOf(i) == SelectSeq(calls, LAMBDA c : c.item = i)

RECURSIVE Concatenated(_)
Concatenated(lists) ==
    IF lists = <<>> THEN <<>> ELSE Head(lists) \o Concatenated(Tail(lists))

\* C38: the combined result of an item holds each agent id at most once,
\* namely the first agent with that id in the order name search, keyword
\* search, capabilities search, in that order of first occurrence, and the
\* reported count is the number of agent records emitted.
CombinedWithoutDuplicates ==
    searchPc = "done" =>
        LET all == Concatenated(responses)
            firsts == SelectSeq(all, LAMBDA a :
                        /\ a.id # 0
                        /\ a = all[CHOOSE k \in 1..Len(all) :
                                    /\ all[k].id = a.id
                                    /\ \A j \in 1..(k - 1) : all[j].id # a.id])
        IN  /\ summary.agents = firsts
            /\ \A j, k \in 1..Len(summary.agents) :
                summary.agents[j].id = summary.agents[k].id => j = k
            /\ summary.count = Len(summary.agents)

DuplicateAcrossSearchesReached ==
    /\ searchPc = "done" /\ Len(responses) = 3
    /\ summary.count = 2
    /\ \E k \in 1..Len(responses[2]) :
        responses[2][k].id = summary.agents[1].id
    /\ summary.agents[1].search = "name"
    /\ summary.agents[2].search = "capabilities"

====
